---- MODULE Spec2Model ----
(***************************************************************************)
(* The did-exchange protocol state machine of aries-framework-go           *)
(* (package didexchange, states.go) and the connection-signature codec.    *)
(*                                                                         *)
(* Go values are modelled as follows.                                      *)
(*   - a string is a tuple of tokens; "" is <<>>; a DID "did:m:x" is       *)
(*     <<"did", m, owner, n>>; a plain identifier is a one-token tuple.    *)
(*   - a pointer that may be nil is a tuple of length 0 (nil) or 1.        *)
(*   - a byte slice is a sequence of numbers 0..255.                       *)
(*   - an error is a tuple of strings, <<>> being the nil error.           *)
(***************************************************************************)
EXTENDS Integers, Sequences, FiniteSets, TLC

\* ------------------------------------------------------------------ bounds
\* DIDs (and keys) one agent may create.
MaxDIDs == 2
\* Messages one agent may dispatch.
MaxSent == 3
\* Largest UNIX time the clock may show, in units of 10^9 seconds.
MaxTime == 1

\* ------------------------------------------------------- program constants
stateNameNoop == "noop"
stateNameNull == "null"
StateIDInvited == "invited"
StateIDRequested == "requested"
StateIDResponded == "responded"
StateIDCompleted == "completed"
StateIDAbandoned == "abandoned"
ackStatusOK == "ok"
didCommServiceType == "did-communication"
timestamplen == 8
didMethod == "peer"
myNSPrefix == "my"

\* Message type URIs, by the names the package gives them.
InvitationMsgType == "invitation"
RequestMsgType == "request"
ResponseMsgType == "response"
AckMsgType == "ack"
CompleteMsgType == "complete"
oobMsgType == "oob-invitation"
\* A type no state knows (any other URI).
OtherMsgType == "other"

MsgTypes ==
    {InvitationMsgType, oobMsgType, RequestMsgType, ResponseMsgType,
     AckMsgType, CompleteMsgType, OtherMsgType}

StateNames ==
    {stateNameNoop, stateNameNull, StateIDInvited, StateIDRequested,
     StateIDResponded, StateIDCompleted, StateIDAbandoned}

\* The nil state (no followup is returned with an error).
NilState == ""

\* ------------------------------------------------------------ small helpers
Nil == <<>>
Some(x) == <<x>>
IsNil(p) == Len(p) = 0
Val(p) == p[1]
NoErr == <<>>
Failed(e) == Len(e) > 0
EmptyStr == <<>>

\* A local variable assigned once: Op with v for its parameter.
Bind(v, Op(_)) == CHOOSE r \in {Op(x) : x \in {v}} : TRUE

\* ------------------------------------------------------------ state registry
\* A mutated mapping: a Complete message is not recognised.
stateFromMsgTypeNoComplete(msgType) ==
    CASE msgType \in {InvitationMsgType, oobMsgType} -> StateIDInvited
      [] msgType = RequestMsgType -> StateIDRequested
      [] msgType = ResponseMsgType -> StateIDResponded
      [] msgType = AckMsgType -> StateIDCompleted
      [] OTHER -> NilState

\* stateFromMsgType: the state the protocol moves towards when msgType is
\* processed; NilState stands for the error "unrecognized msgType".
stateFromMsgType(msgType) ==
    CASE msgType \in {InvitationMsgType, oobMsgType} -> StateIDInvited
      [] msgType = RequestMsgType -> StateIDRequested
      [] msgType = ResponseMsgType -> StateIDResponded
      [] msgType \in {AckMsgType, CompleteMsgType} -> StateIDCompleted
      [] OTHER -> NilState

\* The seven state types.  Elsewhere a state is written by its Name().
StateKinds ==
    {"*noOp", "*null", "*invited", "*requested", "*responded", "*completed",
     "*abandoned"}

\* s.Name(), for each of the seven state types.
Name(s) ==
    CASE s = "*noOp" -> stateNameNoop
      [] s = "*null" -> stateNameNull
      [] s = "*invited" -> StateIDInvited
      [] s = "*requested" -> StateIDRequested
      [] s = "*responded" -> StateIDResponded
      [] s = "*completed" -> StateIDCompleted
      [] s = "*abandoned" -> StateIDAbandoned

\* A mutated lookup: the names of the two final states are taken for each
\* other.
stateFromNameSwapped(name) ==
    CASE name = stateNameNoop -> "*noOp"
      [] name = stateNameNull -> "*null"
      [] name = StateIDInvited -> "*invited"
      [] name = StateIDRequested -> "*requested"
      [] name = StateIDResponded -> "*responded"
      [] name = StateIDCompleted -> "*abandoned"
      [] name = StateIDAbandoned -> "*completed"
      [] OTHER -> NilState

\* stateFromName: the state type of the name; NilState stands for the error
\* "invalid state name".
stateFromName(name) ==
    CASE name = stateNameNoop -> "*noOp"
      [] name = stateNameNull -> "*null"
      [] name = StateIDInvited -> "*invited"
      [] name = StateIDRequested -> "*requested"
      [] name = StateIDResponded -> "*responded"
      [] name = StateIDCompleted -> "*completed"
      [] name = StateIDAbandoned -> "*abandoned"
      [] OTHER -> NilState

\* A mutated transition relation: a completed record may be completed again.
CanTransitionToLoose(s, next) ==
    CASE s = stateNameNull -> next \in {StateIDInvited, StateIDRequested}
      [] s = StateIDInvited -> next = StateIDRequested
      [] s = StateIDRequested -> next \in {StateIDResponded, StateIDInvited}
      [] s = StateIDResponded -> next \in {StateIDCompleted, StateIDRequested}
      [] s = StateIDCompleted -> next = StateIDCompleted
      [] OTHER -> FALSE

\* s.CanTransitionTo(next), for each of the seven states.
CanTransitionTo(s, next) ==
    CASE s = stateNameNoop -> FALSE
      [] s = stateNameNull -> next \in {StateIDInvited, StateIDRequested}
      [] s = StateIDInvited -> next = StateIDRequested
      [] s = StateIDRequested -> next = StateIDResponded
      [] s = StateIDResponded -> next = StateIDCompleted
      [] s = StateIDCompleted -> FALSE
      [] s = StateIDAbandoned -> FALSE
      [] OTHER -> FALSE

\* ------------------------------------------------------------------- bytes
\* The tokens strings are made of; a token's byte is its place in this list.
Alphabet ==
    <<"did", "peer", "sov", "key", "alice", "bob", "env", "pub", "inv", "oob",
      "ep", "lbl", "v1", "v2", "t1", "t2", "r1", "r2", "0", "1", "2", "3", "4", "5", "6", "7", "8", "9">>

Digits == <<"0", "1", "2", "3", "4", "5", "6", "7", "8", "9">>

Code(tok) == CHOOSE i \in 1..Len(Alphabet) : Alphabet[i] = tok

\* []byte(str)
Bytes(str) == Bind(str, LAMBDA s : [i \in 1..Len(s) |-> Code(s[i])])

IsText(b) == \A i \in 1..Len(b) : b[i] \in 1..Len(Alphabet)

\* string(bytes), for bytes that are text.
Text(bytes) == Bind(bytes, LAMBDA b : [i \in 1..Len(b) |-> Alphabet[b[i]]])

RECURSIVE BigEndian(_, _)
\* The n low bytes of v, most significant first.
BigEndian(v, n) ==
    IF n = 0 THEN <<>> ELSE Append(BigEndian(v \div 256, n - 1), v % 256)

\* A mutated timestamp: four bytes are written, not eight.
PutUint32(v) == BigEndian(v, 4)

\* A mutated timestamp: the least significant byte comes first.
PutUint64Little(v) == [i \in 1..timestamplen |-> BigEndian(v, timestamplen)[timestamplen + 1 - i]]

\* binary.BigEndian.PutUint64 into a buffer of timestamplen bytes.
PutUint64(v) == BigEndian(v, timestamplen)

RECURSIVE Uint64(_)
\* binary.BigEndian.Uint64
Uint64(bytes) ==
    Bind(bytes, LAMBDA b :
        IF Len(b) = 0 THEN 0
        ELSE 256 * Uint64(SubSeq(b, 1, Len(b) - 1)) + b[Len(b)])

\* The padding character of base64 ('='); the alphabet is 0..63.
Pad == 64

RECURSIVE URLEncodeToString(_)
\* base64.URLEncoding.EncodeToString: 3 bytes to 4 characters, padded.
URLEncodeToString(src) ==
    Bind(src, LAMBDA b :
        CASE Len(b) = 0 -> <<>>
          [] Len(b) = 1 -> <<b[1] \div 4, (b[1] % 4) * 16, Pad, Pad>>
          [] Len(b) = 2 ->
                <<b[1] \div 4, (b[1] % 4) * 16 + b[2] \div 16, (b[2] % 16) * 4, Pad>>
          [] OTHER ->
                <<b[1] \div 4, (b[1] % 4) * 16 + b[2] \div 16,
                  (b[2] % 16) * 4 + b[3] \div 64, b[3] % 64>>
                \o URLEncodeToString(SubSeq(b, 4, Len(b))))

\* Whether base64.URLEncoding.DecodeString accepts s: whole quads, characters
\* of the alphabet, padding only at the end of the last quad.
URLDecodable(s) ==
    /\ Len(s) % 4 = 0
    /\ \A i \in 1..Len(s) :
          \/ s[i] \in 0..63
          \/ /\ s[i] = Pad
             /\ i >= Len(s) - 1
             /\ (i = Len(s) - 1 => s[Len(s)] = Pad)

RECURSIVE URLDecodeString(_)
\* base64.URLEncoding.DecodeString of a decodable s.
URLDecodeString(str) ==
    Bind(str, LAMBDA s :
        IF Len(s) = 0 THEN <<>>
        ELSE LET b1 == s[1] * 4 + s[2] \div 16
                 b2 == (s[2] % 16) * 16 + (IF s[3] = Pad THEN 0 ELSE s[3] \div 4)
                 b3 == (IF s[3] = Pad THEN 0 ELSE (s[3] % 4) * 64)
                         + (IF s[4] = Pad THEN 0 ELSE s[4])
                 quad == IF s[3] = Pad THEN <<b1>>
                         ELSE IF s[4] = Pad THEN <<b1, b2>>
                         ELSE <<b1, b2, b3>>
             IN  quad \o URLDecodeString(SubSeq(s, 5, Len(s))))

\* -------------------------------------------------------------------- data
\* A DID "did:<method>:<id>", the id being made of an owner and a number.
DID(method, owner, n) == <<"did", method, owner, Digits[n + 1]>>

\* A did:key string of the Ed25519 key number n of owner.
DIDKey(owner, n) == <<"did", "key", owner, Digits[n + 1]>>

\* strings.HasPrefix(str, "did:")
isDID(str) == Len(str) >= 1 /\ str[1] = "did"

\* did.Parse(id).Method, of a string that parses.
MethodOf(id) == id[2]

\* Whether did.Parse accepts the string.
ParsesAsDID(id) == Len(id) >= 3 /\ id[1] = "did"

\* did.Doc, as far as the protocol reads it: its id and its did-communication
\* service (endpoint, recipient keys, accepted media types).
Doc(id, endpoint, keys, accept) ==
    [ID |-> id, endpoint |-> endpoint, keys |-> keys, accept |-> accept]

\* Connection{DID, DIDDoc}
Connection(did, doc) == [DID |-> did, DIDDoc |-> doc]

RECURSIVE Split(_, _)
\* bytes.Split(b, sep), for a one-byte separator.
Split(s, sep) ==
    Bind(s, LAMBDA b :
        IF \A i \in 1..Len(b) : b[i] # sep THEN <<b>>
        ELSE Bind(CHOOSE j \in 1..Len(b) :
                      b[j] = sep /\ \A k \in 1..(j - 1) : b[k] # sep,
                  LAMBDA i :
                      <<SubSeq(b, 1, i - 1)>> \o Split(SubSeq(b, i + 1, Len(b)), sep)))

RECURSIVE Join(_, _)
\* Every element of list, each after the byte lead.
Join(elems, lead) ==
    Bind(elems, LAMBDA list :
        IF Len(list) = 0 THEN <<>>
        ELSE <<lead>> \o Bytes(Head(list)) \o Join(Tail(list), lead))

\* json.Marshal(connection): '{' DID [',' doc members] '}'; the document is
\* left out when nil (omitempty).
JsonMarshal(conn) ==
    <<123>> \o Bytes(conn.DID)
    \o (IF IsNil(conn.DIDDoc) THEN <<>>
        ELSE LET d == Val(conn.DIDDoc)
             IN  <<44>> \o Bytes(d.ID) \o <<44>> \o Bytes(d.endpoint)
                 \o <<44>> \o Join(d.keys, 59) \o <<44>> \o Join(d.accept, 59))
    \o <<125>>

\* A list member of the JSON: empty, or elements each led by ';'.
ListOK(b) == Len(b) = 0 \/ (b[1] = 59 /\ IsText(SelectSeq(b, LAMBDA c : c # 59)))
ListOf(b) ==
    IF Len(b) = 0 THEN <<>>
    ELSE Bind(Split(Tail(b), 59), LAMBDA parts :
             [i \in 1..Len(parts) |-> Text(parts[i])])

\* Whether json.Unmarshal(b, &Connection{}) succeeds.
JsonValid(b) ==
    /\ Len(b) >= 2
    /\ b[1] = 123
    /\ b[Len(b)] = 125
    /\ Bind(Split(SubSeq(b, 2, Len(b) - 1), 44), LAMBDA m :
           /\ Len(m) \in {1, 5}
           /\ IsText(m[1])
           /\ Len(m) = 5 =>
                 /\ IsText(m[2])
                 /\ IsText(m[3])
                 /\ ListOK(m[4])
                 /\ ListOK(m[5]))

\* json.Unmarshal of valid bytes.
JsonUnmarshal(b) ==
    Bind(Split(SubSeq(b, 2, Len(b) - 1), 44), LAMBDA m :
        IF Len(m) = 1 THEN Connection(Text(m[1]), Nil)
        ELSE Connection(Text(m[1]),
                        Some(Doc(Text(m[2]), Text(m[3]), ListOf(m[4]), ListOf(m[5])))))

\* ------------------------------------------------------------------ crypto
\* fingerprint.PubKeyFromDIDKey: the key bytes of a did:key string, which
\* must be "did:key:" and a key; anything else is an error.
IsDIDKey(k) == Len(k) = 4 /\ k[1] = "did" /\ k[2] = "key"
PubKeyFromDIDKey(k) == Bytes(SubSeq(k, 3, 4))

\* localkms.CreateKID: the key id is a function of the public key bytes.
CreateKID(pubKeyBytes) == pubKeyBytes

\* crypto.Sign with the handle of key kid: an Ed25519 signature is
\* unforgeable and binds the key and the message.
CryptoSign(data, kid) == kid \o data

\* The Ed25519 verifier: signature over data by the key pubKey.
SuiteVerify(pubKey, data, signature) == signature = pubKey \o data

\* ------------------------------------------------------------ collaborators
\* The collaborator calls that may fail, by the name used for the failure
\* injected into one state execution ("none": no collaborator fails).
FailPoints ==
    {"decode", "resolve", "kmsCreate", "create", "routerConfig", "addKey",
     "addKey2", "saveDID", "getInvitation", "getRecord", "kmsGet", "sign"}

\* The context's collaborators, as one agent holds them:
\*   me      the agent (names the keys and DIDs it creates)
\*   nkeys   keys created so far by the KMS
\*   kms     key ids the KMS holds a handle for
\*   vdr     DID documents the registry resolves
\*   dids    DIDs saved by connectionStore.SaveDIDFromDoc
\*   router  (connection, key) pairs registered with the mediator
\*   invs    invitations in the connection recorder's store
\*   recs    connection records, by namespace key
\*   outbox  what the outbound dispatcher has sent, in order
Service(keys, endpoint, accept) ==
    [RecipientKeys |-> keys, ServiceEndpoint |-> endpoint, Accept |-> accept]

Destination(keys, endpoint, profiles) ==
    [RecipientKeys |-> keys, ServiceEndpoint |-> endpoint,
     MediaTypeProfiles |-> profiles]

\* did.LookupService(doc, didCommServiceType): whether the document has a
\* did-communication service.
HasService(doc) ==
    doc.endpoint # EmptyStr \/ doc.keys # <<>> \/ doc.accept # <<>>

\* service.CreateDestination: the destination of a document's
\* did-communication service, which needs an endpoint and recipient keys.
CanCreateDestination(doc) ==
    HasService(doc) /\ doc.endpoint # EmptyStr /\ doc.keys # <<>>

CreateDestination(doc) == Destination(doc.keys, doc.endpoint, doc.accept)

\* vdRegistry.Resolve
CanResolve(c, did, fail) ==
    fail # "resolve" /\ \E d \in c.vdr : d.ID = did

Resolve(c, did) == CHOOSE d \in c.vdr : d.ID = did

\* The registry's store of a document, replacing one of the same id.
StoreDoc(c, doc) ==
    [c EXCEPT !.vdr = {d \in c.vdr : d.ID # doc.ID} \cup {doc}]

\* connectionStore.SaveDIDFromDoc
SaveDIDFromDoc(c, doc) == [c EXCEPT !.dids = c.dids \cup {doc.ID}]

\* connectionstore.CreateNamespaceKey(prefix, thid); an empty thid is an error.
CreateNamespaceKey(prefix, thid) == <<prefix>> \o thid

\* recipientKey(doc): the first recipient key of the document's destination.
recipientKey(doc) ==
    IF ~CanCreateDestination(doc)
    THEN [err |-> <<"failed to create destination">>, key |-> EmptyStr]
    ELSE [err |-> NoErr, key |-> CreateDestination(doc).RecipientKeys[1]]

\* -------------------------------------------------- DID / Connection assembly
DocErr(e, c) == [err |-> e, doc |-> Nil, conn |-> Nil, ctx |-> c]

\* The mediator's service endpoint for a router connection.
RouterEndpoint(connID) == <<"ep">> \o connID

\* The endpoint the registry gives a new document with no router.
DefaultEndpoint(me) == <<"ep", me>>

\* A mutated assembly: the public DID is not looked at, a new DID is made.
getDIDDocAndConnectionNew(c, pubDID, routerConnections, fail) ==
    IF routerConnections # <<>> /\ fail = "routerConfig"
    THEN DocErr(<<"did doc - fetch router config">>, c)
    ELSE IF fail = "kmsCreate"
    THEN DocErr(<<"failed to create and export public key">>, c)
    ELSE
    LET n == c.nkeys
        key == DIDKey(c.me, n)
        \* createNewKeyAndVerificationMethod: the KMS holds a new key
        c1 == [c EXCEPT !.nkeys = n + 1,
                        !.kms = @ \cup {CreateKID(PubKeyFromDIDKey(key))}]
        endpoint == IF routerConnections = <<>> THEN DefaultEndpoint(c.me)
                    ELSE RouterEndpoint(routerConnections[1])
        doc == Doc(DID(didMethod, c.me, n), endpoint, <<key>>, <<>>)
        \* vdRegistry.Create(didMethod, newDID)
        c2 == StoreDoc(c1, doc)
        \* mediator.AddKeyToRouter for the first k router connections
        added(k) == [c2 EXCEPT !.router =
                        @ \cup {<<routerConnections[i], key>> : i \in 1..k}]
        c3 == added(Len(routerConnections))
    IN  IF fail = "create" THEN DocErr(<<"create peer did">>, c1)
        ELSE IF routerConnections # <<>> /\ fail = "addKey"
        THEN DocErr(<<"did doc - add key to the router">>, c2)
        ELSE IF Len(routerConnections) >= 2 /\ fail = "addKey2"
        THEN DocErr(<<"did doc - add key to the router">>, added(1))
        ELSE IF fail = "saveDID" THEN DocErr(<<"save did">>, c3)
        ELSE [err |-> NoErr, doc |-> Some(doc),
              conn |-> Some(Connection(doc.ID, Some(doc))),
              ctx |-> SaveDIDFromDoc(c3, doc)]

\* getDIDDocAndConnection(pubDID, routerConnections): the local DID document
\* and the Connection sent to the other party, with the context as the call
\* leaves it.
getDIDDocAndConnection(c, pubDID, routerConnections, fail) ==
    IF pubDID # EmptyStr
    THEN IF ~CanResolve(c, pubDID, fail)
         THEN DocErr(<<"resolve public did">>, c)
         ELSE LET doc == Resolve(c, pubDID)
              IN  IF fail = "saveDID" THEN DocErr(<<"save did">>, c)
                  ELSE [err |-> NoErr, doc |-> Some(doc),
                        conn |-> Some(Connection(doc.ID, Nil)),
                        ctx |-> SaveDIDFromDoc(c, doc)]
    ELSE IF routerConnections # <<>> /\ fail = "routerConfig"
    THEN DocErr(<<"did doc - fetch router config">>, c)
    ELSE IF fail = "kmsCreate"
    THEN DocErr(<<"failed to create and export public key">>, c)
    ELSE
    LET n == c.nkeys
        key == DIDKey(c.me, n)
        \* createNewKeyAndVerificationMethod: the KMS holds a new key
        c1 == [c EXCEPT !.nkeys = n + 1,
                        !.kms = @ \cup {CreateKID(PubKeyFromDIDKey(key))}]
        endpoint == IF routerConnections = <<>> THEN DefaultEndpoint(c.me)
                    ELSE RouterEndpoint(routerConnections[1])
        doc == Doc(DID(didMethod, c.me, n), endpoint, <<key>>, <<>>)
        \* vdRegistry.Create(didMethod, newDID)
        c2 == StoreDoc(c1, doc)
        \* mediator.AddKeyToRouter for the first k router connections
        added(k) == [c2 EXCEPT !.router =
                        @ \cup {<<routerConnections[i], key>> : i \in 1..k}]
        c3 == added(Len(routerConnections))
    IN  IF fail = "create" THEN DocErr(<<"create peer did">>, c1)
        ELSE IF routerConnections # <<>> /\ fail = "addKey"
        THEN DocErr(<<"did doc - add key to the router">>, c2)
        ELSE IF Len(routerConnections) >= 2 /\ fail = "addKey2"
        THEN DocErr(<<"did doc - add key to the router">>, added(1))
        ELSE IF fail = "saveDID" THEN DocErr(<<"save did">>, c3)
        ELSE [err |-> NoErr, doc |-> Some(doc),
              conn |-> Some(Connection(doc.ID, Some(doc))),
              ctx |-> SaveDIDFromDoc(c3, doc)]

\* One call of vdRegistry.Resolve(did), and one of
\* vdRegistry.Create(method, doc, WithOption("store", store)).
ResolveCall(did) == [op |-> "Resolve", did |-> did]
CreateCall(method, doc, store) ==
    [op |-> "Create", method |-> method, doc |-> doc, store |-> store]

\* A mutated resolution: the document is stored under its own method, sov
\* too.
resolveDidDocFromConnectionOwnMethod(c, conn, fail) ==
    IF IsNil(conn.DIDDoc)
    THEN IF ~CanResolve(c, conn.DID, fail)
         THEN [err |-> <<"resolve">>, doc |-> Nil, ctx |-> c,
               calls |-> <<ResolveCall(conn.DID)>>]
         ELSE [err |-> NoErr, doc |-> Some(Resolve(c, conn.DID)), ctx |-> c,
               calls |-> <<ResolveCall(conn.DID)>>]
    ELSE LET didDoc == Val(conn.DIDDoc)
             calls == <<CreateCall(MethodOf(didDoc.ID), didDoc, TRUE)>>
         IN  IF ~ParsesAsDID(didDoc.ID)
             THEN [err |-> <<"resolveDidDocFromConnection: failed to parse DID">>,
                   doc |-> Nil, ctx |-> c, calls |-> <<>>]
             ELSE IF fail = "create"
             THEN [err |-> <<"failed to store provided did document">>,
                   doc |-> Nil, ctx |-> c, calls |-> calls]
             ELSE [err |-> NoErr, doc |-> Some(didDoc), ctx |-> StoreDoc(c, didDoc),
                   calls |-> calls]

\* resolveDidDocFromConnection(conn): the remote party's DID document,
\* resolved, or stored when the Connection carries it; calls are the calls
\* of the registry it makes.
resolveDidDocFromConnection(c, conn, fail) ==
    IF IsNil(conn.DIDDoc)
    THEN IF ~CanResolve(c, conn.DID, fail)
         THEN [err |-> <<"resolve">>, doc |-> Nil, ctx |-> c,
               calls |-> <<ResolveCall(conn.DID)>>]
         ELSE [err |-> NoErr, doc |-> Some(Resolve(c, conn.DID)), ctx |-> c,
               calls |-> <<ResolveCall(conn.DID)>>]
    ELSE LET didDoc == Val(conn.DIDDoc)
             \* Interop: a did:sov document is stored as a peer document
             method == IF MethodOf(didDoc.ID) = "sov" THEN "peer"
                       ELSE MethodOf(didDoc.ID)
             calls == <<CreateCall(method, didDoc, TRUE)>>
         IN  IF ~ParsesAsDID(didDoc.ID)
             THEN [err |-> <<"resolveDidDocFromConnection: failed to parse DID">>,
                   doc |-> Nil, ctx |-> c, calls |-> <<>>]
             ELSE IF fail = "create"
             THEN [err |-> <<"failed to store provided did document">>,
                   doc |-> Nil, ctx |-> c, calls |-> calls]
             ELSE [err |-> NoErr, doc |-> Some(didDoc), ctx |-> StoreDoc(c, didDoc),
                   calls |-> calls]

\* ------------------------------------------------- verification-key resolver
\* Invitation (legacy) and OOBInvitation messages.
Invitation(id, did, keys, endpoint) ==
    [Type |-> InvitationMsgType, ID |-> id, DID |-> did,
     RecipientKeys |-> keys, ServiceEndpoint |-> endpoint]

\* OOBInvitation.Target: a DID string, a service struct, a map, or anything.
Target(kind, did, svc) == [kind |-> kind, did |-> did, svc |-> svc]

OOBInvitation(id, target, profiles, label) ==
    [Type |-> oobMsgType, ID |-> id, Target |-> target,
     MediaTypeProfiles |-> profiles, MyLabel |-> label]

NoService == Service(<<>>, EmptyStr, <<>>)

\* A mutated extraction: the block's own Accept is kept whatever the
\* invitation says.
getServiceBlockOwnAccept(c, i, fail) ==
    LET t == i.Target
        over(block) ==
            block
    IN  CASE t.kind = "did" ->
                IF ~CanResolve(c, t.did, fail)
                THEN [err |-> <<"failed to resolve myDID">>, svc |-> NoService]
                ELSE LET d == Resolve(c, t.did)
                     IN  IF ~HasService(d)
                         THEN [err |-> <<"no valid service block found on myDID">>,
                               svc |-> NoService]
                         ELSE [err |-> NoErr,
                               svc |-> over(Service(d.keys, d.endpoint, d.accept))]
          [] t.kind = "service" -> [err |-> NoErr, svc |-> over(t.svc)]
          [] t.kind = "map" ->
                IF fail = "decode"
                THEN [err |-> <<"failed to decode service block">>, svc |-> NoService]
                ELSE [err |-> NoErr, svc |-> over(t.svc)]
          [] OTHER -> [err |-> <<"unsupported target type">>, svc |-> NoService]

\* getServiceBlock(oob): the service block of the invitation's target; the
\* invitation's media type profiles, when given, replace the block's Accept.
getServiceBlock(c, i, fail) ==
    LET t == i.Target
        over(block) ==
            IF Len(i.MediaTypeProfiles) > 0
            THEN [block EXCEPT !.Accept = i.MediaTypeProfiles]
            ELSE block
    IN  CASE t.kind = "did" ->
                IF ~CanResolve(c, t.did, fail)
                THEN [err |-> <<"failed to resolve myDID">>, svc |-> NoService]
                ELSE LET d == Resolve(c, t.did)
                     IN  IF ~HasService(d)
                         THEN [err |-> <<"no valid service block found on myDID">>,
                               svc |-> NoService]
                         ELSE [err |-> NoErr,
                               svc |-> over(Service(d.keys, d.endpoint, d.accept))]
          [] t.kind = "service" -> [err |-> NoErr, svc |-> over(t.svc)]
          [] t.kind = "map" ->
                IF fail = "decode"
                THEN [err |-> <<"failed to decode service block">>, svc |-> NoService]
                ELSE [err |-> NoErr, svc |-> over(t.svc)]
          [] OTHER -> [err |-> <<"unsupported target type">>, svc |-> NoService]

KeyErr(e) == [err |-> e, panic |-> FALSE, key |-> EmptyStr]
KeyPanic == [err |-> NoErr, panic |-> TRUE, key |-> EmptyStr]
KeyOK(k) == [err |-> NoErr, panic |-> FALSE, key |-> k]

\* The error getVerKeyFromOOBInvitation returns for "no such OOB invitation".
errVerKeyNotFound == <<"verkey not found">>

HasInvitation(c, id) == \E i \in c.invs : i.ID = id
GetInvitation(c, id) == CHOOSE i \in c.invs : i.ID = id

\* resolveVerKey(oob): the first recipient key of the service block.
resolveVerKey(c, i, fail) ==
    Bind(getServiceBlock(c, i, fail), LAMBDA b :
        IF Failed(b.err)
        THEN KeyErr(<<"failed to get service block from oobinvitation">>)
        ELSE IF Len(b.svc.RecipientKeys) = 0 THEN KeyPanic
        ELSE KeyOK(b.svc.RecipientKeys[1]))

\* getVerKeyFromOOBInvitation(invitationID)
getVerKeyFromOOBInvitation(c, invitationID, fail) ==
    IF fail = "getInvitation" THEN KeyErr(<<"failed to load oob invitation">>)
    ELSE IF ~HasInvitation(c, invitationID) THEN KeyErr(errVerKeyNotFound)
    ELSE Bind(GetInvitation(c, invitationID), LAMBDA i :
             IF i.Type # oobMsgType THEN KeyErr(errVerKeyNotFound)
             ELSE Bind(resolveVerKey(c, i, fail), LAMBDA k :
                      IF Failed(k.err) THEN KeyErr(<<"failed to get my verkey">>)
                      ELSE k))

\* getInvitationRecipientKey(invitation)
getInvitationRecipientKey(c, invitation, fail) ==
    IF invitation.DID # EmptyStr
    THEN IF ~CanResolve(c, invitation.DID, fail)
         THEN KeyErr(<<"get invitation recipient key">>)
         ELSE Bind(recipientKey(Resolve(c, invitation.DID)), LAMBDA k :
                  IF Failed(k.err) THEN KeyErr(<<"getInvitationRecipientKey">>)
                  ELSE KeyOK(k.key))
    ELSE IF Len(invitation.RecipientKeys) = 0 THEN KeyPanic
    ELSE KeyOK(invitation.RecipientKeys[1])

\* A mutated resolver: in the fallback the store is asked first, for an id
\* that is a DID too.
getVerKeyStoreFirst(c, invitationID, fail) ==
    Bind(getVerKeyFromOOBInvitation(c, invitationID, fail), LAMBDA oob :
        IF oob.panic THEN oob
        ELSE IF Failed(oob.err) /\ oob.err # errVerKeyNotFound
        THEN KeyErr(<<"failed to get my verkey from oob invitation">>)
        ELSE IF ~Failed(oob.err) THEN oob
        ELSE IF ~isDID(invitationID) /\ ~HasInvitation(c, invitationID)
        THEN KeyErr(<<"get invitation for signature">>)
        ELSE Bind(getInvitationRecipientKey(
                      c,
                      IF HasInvitation(c, invitationID)
                      THEN GetInvitation(c, invitationID)
                      ELSE Invitation(invitationID, invitationID, <<>>, EmptyStr),
                      fail),
                  LAMBDA k :
                      IF Failed(k.err) THEN KeyErr(<<"get invitation recipient key">>)
                      ELSE k))

\* getVerKey(invitationID): the invitation's recipient key, from the OOB
\* invitation when there is one, else from the legacy invitation or the DID.
getVerKey(c, invitationID, fail) ==
    Bind(getVerKeyFromOOBInvitation(c, invitationID, fail), LAMBDA oob :
        IF oob.panic THEN oob
        ELSE IF Failed(oob.err) /\ oob.err # errVerKeyNotFound
        THEN KeyErr(<<"failed to get my verkey from oob invitation">>)
        ELSE IF ~Failed(oob.err) THEN oob
        ELSE IF ~isDID(invitationID) /\ ~HasInvitation(c, invitationID)
        THEN KeyErr(<<"get invitation for signature">>)
        ELSE Bind(getInvitationRecipientKey(
                      c,
                      IF isDID(invitationID)
                      THEN Invitation(invitationID, invitationID, <<>>, EmptyStr)
                      ELSE GetInvitation(c, invitationID),
                      fail),
                  LAMBDA k :
                      IF Failed(k.err) THEN KeyErr(<<"get invitation recipient key">>)
                      ELSE k))

\* ------------------------------------------------ connection-signature codec
ConnectionSignature(signedData, signVerKey, signature) ==
    [Type |-> "ed25519Sha512_single", SignedData |-> signedData,
     SignVerKey |-> signVerKey, Signature |-> signature]

SigErr(e) == [err |-> e, panic |-> FALSE, sig |-> Nil]

\* prepareConnectionSignature(connection, invitationID) at UNIX time now.
prepareConnectionSignature(c, connection, invitationID, now, fail) ==
    Bind(PutUint64(now) \o JsonMarshal(connection), LAMBDA concatenateSignData :
    Bind(getVerKey(c, invitationID, fail), LAMBDA k :
        IF k.panic THEN [err |-> NoErr, panic |-> TRUE, sig |-> Nil]
        ELSE IF Failed(k.err) THEN SigErr(<<"failed to get verkey">>)
        ELSE IF ~IsDIDKey(k.key)
        THEN SigErr(<<"failed to extract pubKeyBytes from did:key">>)
        ELSE Bind(CreateKID(PubKeyFromDIDKey(k.key)), LAMBDA signingKID :
                 IF fail = "kmsGet" \/ signingKID \notin c.kms
                 THEN SigErr(<<"prepareConnectionSignature: failed to get key handle">>)
                 ELSE IF fail = "sign" THEN SigErr(<<"sign response message">>)
                 ELSE [err |-> NoErr, panic |-> FALSE,
                       sig |-> Some(ConnectionSignature(
                                  URLEncodeToString(concatenateSignData),
                                  k.key,
                                  URLEncodeToString(
                                      CryptoSign(concatenateSignData, signingKID))))])))

VerErr(e) == [err |-> e, panic |-> FALSE, conn |-> Nil]

\* A mutated verifier: it checks against the key the signature names.
verifySignatureOwnKey(connSignature, recipientKeys) ==
    IF IsNil(connSignature) THEN [err |-> NoErr, panic |-> TRUE, conn |-> Nil]
    ELSE
    Bind(Val(connSignature), LAMBDA cs :
        IF ~URLDecodable(cs.SignedData) THEN VerErr(<<"decode signature data">>)
        ELSE
        Bind(URLDecodeString(cs.SignedData), LAMBDA sigData :
        IF Len(sigData) = 0 THEN VerErr(<<"missing or invalid signature data">>)
        ELSE IF ~URLDecodable(cs.Signature) THEN VerErr(<<"decode signature">>)
        ELSE IF ~IsDIDKey(cs.SignVerKey)
        THEN VerErr(<<"verifySignature: failed to parse pubKeyBytes from recipientKeys">>)
        ELSE IF ~SuiteVerify(PubKeyFromDIDKey(cs.SignVerKey), sigData,
                             URLDecodeString(cs.Signature))
        THEN VerErr(<<"verify signature">>)
        ELSE IF Len(sigData) <= timestamplen
        THEN VerErr(<<"missing connection attribute bytes">>)
        ELSE Bind(SubSeq(sigData, timestamplen + 1, Len(sigData)), LAMBDA connBytes :
                 IF ~JsonValid(connBytes)
                 THEN VerErr(<<"JSON unmarshalling of connection">>)
                 ELSE [err |-> NoErr, panic |-> FALSE,
                       conn |-> Some(JsonUnmarshal(connBytes))])))

\* verifySignature(connSignature, recipientKeys): the Connection a signature
\* carries, when the signature verifies under the recipient key.  A nil
\* connSignature is dereferenced.
verifySignature(connSignature, recipientKeys) ==
    IF IsNil(connSignature) THEN [err |-> NoErr, panic |-> TRUE, conn |-> Nil]
    ELSE
    Bind(Val(connSignature), LAMBDA cs :
        IF ~URLDecodable(cs.SignedData) THEN VerErr(<<"decode signature data">>)
        ELSE
        Bind(URLDecodeString(cs.SignedData), LAMBDA sigData :
        IF Len(sigData) = 0 THEN VerErr(<<"missing or invalid signature data">>)
        ELSE IF ~URLDecodable(cs.Signature) THEN VerErr(<<"decode signature">>)
        ELSE IF ~IsDIDKey(recipientKeys)
        THEN VerErr(<<"verifySignature: failed to parse pubKeyBytes from recipientKeys">>)
        ELSE IF ~SuiteVerify(PubKeyFromDIDKey(recipientKeys), sigData,
                             URLDecodeString(cs.Signature))
        THEN VerErr(<<"verify signature">>)
        ELSE IF Len(sigData) <= timestamplen
        THEN VerErr(<<"missing connection attribute bytes">>)
        ELSE Bind(SubSeq(sigData, timestamplen + 1, Len(sigData)), LAMBDA connBytes :
                 IF ~JsonValid(connBytes)
                 THEN VerErr(<<"JSON unmarshalling of connection">>)
                 ELSE [err |-> NoErr, panic |-> FALSE,
                       conn |-> Some(JsonUnmarshal(connBytes))])))

\* ---------------------------------------------------------------- messages
\* A mutated thread decorator: the parent thread id is dropped.
ThreadNoParent(id, pid) == [ID |-> id, PID |-> EmptyStr]

Thread(id, pid) == [ID |-> id, PID |-> pid]

\* Request, Response, Ack and Complete; Thread, Connection,
\* ConnectionSignature and DocAttach are pointers (nil: <<>>).
Request(id, label, conn, thread, attach) ==
    [Type |-> RequestMsgType, ID |-> id, Label |-> label, Connection |-> conn,
     Thread |-> thread, DocAttach |-> attach]

\* A mutated Response: it is threaded on its own id.
ResponseOwnThread(id, thread, sig, did, attach) ==
    [Type |-> ResponseMsgType, ID |-> id, Thread |-> Some(Thread(id, EmptyStr)),
     ConnectionSignature |-> sig, DID |-> did, DocAttach |-> attach]

Response(id, thread, sig, did, attach) ==
    [Type |-> ResponseMsgType, ID |-> id, Thread |-> thread,
     ConnectionSignature |-> sig, DID |-> did, DocAttach |-> attach]

Ack(id, status, thread) ==
    [Type |-> AckMsgType, ID |-> id, Status |-> status, Thread |-> thread]

Complete(id, thread) == [Type |-> CompleteMsgType, ID |-> id, Thread |-> thread]

\* A message of a type the protocol does not know.
Other(id) == [Type |-> OtherMsgType, ID |-> id]

\* decorator.Attachment: its data, the signature over it (none: <<>>) and
\* the key the signature names as its own.
Attachment(data, jws, signer) == [Base64 |-> data, jws |-> jws, signer |-> signer]

\* docAttach.Data.Sign with the handle of the key: the attachment, signed.
AttachmentSign(data, key) ==
    Attachment(data, CryptoSign(data, CreateKID(PubKeyFromDIDKey(key))), key)

\* request.DocAttach.Data.Verify: the signature is by the key it names.
AttachmentVerify(attach) ==
    /\ IsDIDKey(attach.signer)
    /\ SuiteVerify(PubKeyFromDIDKey(attach.signer), attach.Base64, attach.jws)

\* connectionstore.Record, the fields the protocol reads and writes.
Record(state, thid, pthid, keys, implicit) ==
    [State |-> state, ThreadID |-> thid, ParentThreadID |-> pthid,
     MyDID |-> EmptyStr, TheirDID |-> EmptyStr, TheirLabel |-> EmptyStr,
     RecipientKeys |-> keys, MediaTypeProfiles |-> <<>>, Implicit |-> implicit]

\* The options a message is handled with.
Options(publicDID, routerConnections, label) ==
    [publicDID |-> publicDID, routerConnections |-> routerConnections,
     label |-> label]

getPublicDID(options) == options.publicDID
getRouterConnections(options) == options.routerConnections
getLabel(options) == options.label

\* stateMachineMsg: the message, the record loaded for it, the options.
StateMachineMsg(body, connRecord, options) ==
    [body |-> body, connRecord |-> connRecord, options |-> options]

\* One call of outboundDispatcher.Send.
Send(msg, senderKey, dest) == [msg |-> msg, sender |-> senderKey, dest |-> dest]

\* uuid.New().String(): an id no earlier message of this agent has.
NewUUID(c) == <<c.me, Digits[Len(c.outbox) + 1]>>

\* ------------------------------------------------------- handler results
\* (stateAction, *Record, error) of a handler, with the context as the call
\* leaves it and msg.connRecord as the call leaves it (handlers write
\* through the pointer).  An action is the list of Sends running it makes.
HErr(e, c, inRec) ==
    [err |-> e, panic |-> FALSE, action |-> Nil, rec |-> Nil, ctx |-> c,
     inRec |-> inRec]

HPanic(c, inRec) ==
    [err |-> NoErr, panic |-> TRUE, action |-> Nil, rec |-> Nil, ctx |-> c,
     inRec |-> inRec]

HOk(sends, rec, c, inRec) ==
    [err |-> NoErr, panic |-> FALSE, action |-> Some(sends), rec |-> rec,
     ctx |-> c, inRec |-> inRec]

\* ------------------------------------------------------------------ handlers
\* The closure a handler returns: running it later sends one message; making
\* it sends nothing.
Deferred(c, send) == [sends |-> <<send>>, ctx |-> c]

\* A mutated closure: the message is sent while the handler runs.
Eager(c, send) ==
    [sends |-> <<>>, ctx |-> [c EXCEPT !.outbox = Append(@, send)]]

\* A mutated closure: running it sends the message twice.
Twice(c, send) == [sends |-> <<send, send>>, ctx |-> c]

\* A mutated closure: running it sends nothing.
NoSend(c, send) == [sends |-> <<>>, ctx |-> c]

\* func() error { return ctx.outboundDispatcher.Send(request, recipientKey, dest) }
oobRequestAction(c, send) == Deferred(c, send)

\* func() error { return ctx.outboundDispatcher.Send(request, senderKey, destination) }
requestAction(c, send) == Deferred(c, send)

\* func() error { return ctx.outboundDispatcher.Send(response, senderVerKey, destination) }
responseAction(c, send) == Deferred(c, send)

\* func() error { return ctx.outboundDispatcher.Send(ack, recKey, destination) }
ackAction(c, send) == Deferred(c, send)

\* func() error { return nil }
noAction == <<>>

\* handleInboundOOBInvitation(msg, thid, options)
handleInboundOOBInvitation(c, msg, thid, options, fail) ==
    Bind(getDIDDocAndConnection(
             c, getPublicDID(options), getRouterConnections(options), fail),
         LAMBDA d :
        IF Failed(d.err)
        THEN HErr(<<"handleInboundOOBInvitation - failed to get diddoc and connection">>,
                  d.ctx, msg.connRecord)
        ELSE IF IsNil(msg.connRecord) THEN HPanic(d.ctx, msg.connRecord)
        ELSE
        Bind(Val(d.doc), LAMBDA myDID :
        Bind([Val(msg.connRecord) EXCEPT !.MyDID = myDID.ID, !.ThreadID = thid],
             LAMBDA rec :
        Bind(msg.body, LAMBDA oobInvitation :
        Bind(Request(thid, oobInvitation.MyLabel, d.conn,
                     Some(Thread(thid, rec.ParentThreadID)), Nil),
             LAMBDA request :
        Bind(getServiceBlock(d.ctx, oobInvitation, fail), LAMBDA b :
        Bind(Destination(b.svc.RecipientKeys, b.svc.ServiceEndpoint, b.svc.Accept),
             LAMBDA dest :
        Bind(recipientKey(myDID), LAMBDA k :
        Bind(oobRequestAction(d.ctx, Send(request, k.key, dest)), LAMBDA a :
            IF fail = "decode"
            THEN HErr(<<"failed to decode oob invitation">>, d.ctx, Some(rec))
            ELSE IF Failed(b.err)
            THEN HErr(<<"failed to get service block">>, d.ctx, Some(rec))
            ELSE IF Failed(k.err)
            THEN HErr(<<"handle inbound OOBInvitation">>, d.ctx, Some(rec))
            ELSE HOk(a.sends, Some(rec), a.ctx, Some(rec)))))))))))

\* getDestination(invitation)
getDestination(c, invitation, fail) ==
    IF invitation.DID # EmptyStr
    THEN IF ~CanResolve(c, invitation.DID, fail)
            \/ ~CanCreateDestination(Resolve(c, invitation.DID))
         THEN [err |-> <<"get destination">>, dest |-> Destination(<<>>, EmptyStr, <<>>)]
         ELSE [err |-> NoErr, dest |-> CreateDestination(Resolve(c, invitation.DID))]
    ELSE [err |-> NoErr,
          dest |-> Destination(invitation.RecipientKeys,
                               invitation.ServiceEndpoint, <<>>)]

\* handleInboundInvitation(invitation, thid, options, connRec)
handleInboundInvitation(c, invitation, thid, options, connRec, fail) ==
    Bind(getDestination(c, invitation, fail), LAMBDA g :
        IF Failed(g.err) THEN HErr(g.err, c, connRec)
        ELSE
    Bind(getDIDDocAndConnection(
             c, getPublicDID(options), getRouterConnections(options), fail),
         LAMBDA d :
        IF Failed(d.err) THEN HErr(d.err, d.ctx, connRec)
        ELSE IF IsNil(connRec) THEN HPanic(d.ctx, connRec)
        ELSE
        Bind(IF Val(connRec).Implicit THEN invitation.DID ELSE invitation.ID,
             LAMBDA pid :
        Bind(Request(thid, getLabel(options), d.conn,
                     Some(Thread(EmptyStr, pid)), Nil),
             LAMBDA request :
        Bind([Val(connRec) EXCEPT !.MyDID = Val(request.Connection).DID],
             LAMBDA rec :
        Bind(recipientKey(Val(d.doc)), LAMBDA k :
        Bind(requestAction(d.ctx, Send(request, k.key, g.dest)), LAMBDA a :
            IF Failed(k.err)
            THEN HErr(<<"handle inbound invitation">>, d.ctx, Some(rec))
            ELSE HOk(a.sends, Some(rec), a.ctx, Some(rec)))))))))

\* getRequestConnection(request): the Connection a Request carries.
getRequestConnection(request) ==
    IF IsNil(request.Connection)
    THEN [err |-> <<"missing connection">>, conn |-> Nil]
    ELSE [err |-> NoErr, conn |-> request.Connection]

\* convertPeerToSov(doc): the document under a did:sov id.
CanConvertPeerToSov(doc) == ParsesAsDID(doc.ID)
convertPeerToSov(doc) ==
    [doc EXCEPT !.ID = <<"did", "sov">> \o SubSeq(doc.ID, 3, Len(doc.ID))]

\* strings.TrimPrefix(id, "did:sov:")
TrimSovPrefix(id) ==
    IF Len(id) >= 2 /\ id[1] = "did" /\ id[2] = "sov"
    THEN SubSeq(id, 3, Len(id)) ELSE id

RespErr(e) == [err |-> e, panic |-> FALSE, response |-> Nil]
RespPanic == [err |-> NoErr, panic |-> TRUE, response |-> Nil]

\* prepareResponseWithSignedAttachment(request, response, responseDidDoc)
prepareResponseWithSignedAttachment(c, request, response, responseDidDoc, fail) ==
    IF ~IsNil(request.DocAttach) /\ ~AttachmentVerify(Val(request.DocAttach))
    THEN RespErr(<<"verifying signature on doc~attach">>)
    ELSE IF IsNil(request.Thread) THEN RespPanic
    ELSE
    Bind(Bytes(responseDidDoc.ID), LAMBDA docBytes :
    Bind(getVerKey(c, Val(request.Thread).PID, fail), LAMBDA k :
        IF k.panic THEN RespPanic
        ELSE IF Failed(k.err) THEN RespErr(<<"getting sender verkey">>)
        ELSE IF ~IsDIDKey(k.key)
        THEN RespErr(<<"failed to extract pubKeyBytes from did:key">>)
        ELSE IF fail = "kmsGet" \/ CreateKID(PubKeyFromDIDKey(k.key)) \notin c.kms
        THEN RespErr(<<"failed to get key handle">>)
        ELSE IF fail = "sign" THEN RespErr(<<"signing did_doc~attach">>)
        ELSE [err |-> NoErr, panic |-> FALSE,
              response |-> Some([response EXCEPT
                  !.DID = TrimSovPrefix(responseDidDoc.ID),
                  !.DocAttach = Some(AttachmentSign(URLEncodeToString(docBytes),
                                                    k.key))])]))

\* A mutated Response: it names the local DID on the signature path too.
prepareResponseWithDID(c, request, responseDidDoc, responseConnection, now, fail) ==
    Bind(Response(NewUUID(c),
                  Some(Thread(request.ID,
                              IF IsNil(request.Thread) THEN EmptyStr
                              ELSE Val(request.Thread).PID)),
                  Nil, EmptyStr, Nil),
         LAMBDA response :
        IF c.doACAPyInterop
        THEN prepareResponseWithSignedAttachment(
                 c, request, response, responseDidDoc, fail)
        ELSE IF IsNil(request.Thread) THEN RespPanic
        ELSE Bind(prepareConnectionSignature(
                      c, responseConnection, Val(request.Thread).PID, now, fail),
                  LAMBDA sg :
                 IF sg.panic THEN RespPanic
                 ELSE IF Failed(sg.err) THEN RespErr(<<"connection signature">>)
                 ELSE [err |-> NoErr, panic |-> FALSE,
                       response |-> Some([response EXCEPT
                                             !.ConnectionSignature = sg.sig,
                                             !.DID = responseConnection.DID])]))

\* prepareResponse(request, responseDidDoc, responseConnection)
prepareResponse(c, request, responseDidDoc, responseConnection, now, fail) ==
    Bind(Response(NewUUID(c),
                  Some(Thread(request.ID,
                              IF IsNil(request.Thread) THEN EmptyStr
                              ELSE Val(request.Thread).PID)),
                  Nil, EmptyStr, Nil),
         LAMBDA response :
        IF c.doACAPyInterop
        THEN prepareResponseWithSignedAttachment(
                 c, request, response, responseDidDoc, fail)
        ELSE IF IsNil(request.Thread) THEN RespPanic
        ELSE Bind(prepareConnectionSignature(
                      c, responseConnection, Val(request.Thread).PID, now, fail),
                  LAMBDA sg :
                 IF sg.panic THEN RespPanic
                 ELSE IF Failed(sg.err) THEN RespErr(<<"connection signature">>)
                 ELSE [err |-> NoErr, panic |-> FALSE,
                       response |-> Some([response EXCEPT
                                             !.ConnectionSignature = sg.sig])]))

\* A mutated handler: the record takes the local DID for the remote one.
handleInboundRequestOwnDID(c, request, options, connRec, now, fail) ==
    Bind(getRequestConnection(request), LAMBDA q :
        IF Failed(q.err)
        THEN HErr(<<"extracting connection data from request">>, c, connRec)
        ELSE
    Bind(Val(q.conn), LAMBDA requestConnection :
    Bind(resolveDidDocFromConnection(c, requestConnection, fail), LAMBDA r :
        IF Failed(r.err)
        THEN HErr(<<"resolve did doc from exchange request connection">>,
                  r.ctx, connRec)
        ELSE
    Bind(getDIDDocAndConnection(
             r.ctx, getPublicDID(options), getRouterConnections(options), fail),
         LAMBDA d :
        IF Failed(d.err)
        THEN HErr(<<"get response did doc and connection">>, d.ctx, connRec)
        ELSE
    Bind(recipientKey(Val(d.doc)), LAMBDA k :
        IF Failed(k.err) THEN HErr(<<"handle inbound request">>, d.ctx, connRec)
        ELSE IF c.doACAPyInterop /\ ~CanConvertPeerToSov(Val(d.doc))
        THEN HErr(<<"converting my did doc to a 'sov' doc for response message">>,
                  d.ctx, connRec)
        ELSE
    Bind(IF c.doACAPyInterop THEN convertPeerToSov(Val(d.doc)) ELSE Val(d.doc),
         LAMBDA responseDidDoc :
    Bind(Val(d.conn), LAMBDA responseConnection :
    Bind(prepareResponse(d.ctx, request, responseDidDoc, responseConnection,
                         now, fail),
         LAMBDA p :
        IF p.panic THEN HPanic(d.ctx, connRec)
        ELSE IF Failed(p.err) THEN HErr(<<"preparing response">>, d.ctx, connRec)
        ELSE IF IsNil(connRec) THEN HPanic(d.ctx, connRec)
        ELSE
    Bind([Val(connRec) EXCEPT !.TheirDID = responseConnection.DID,
                              !.MyDID = responseConnection.DID,
                              !.TheirLabel = request.Label],
         LAMBDA rec1 :
    Bind(Val(r.doc), LAMBDA requestDidDoc :
        IF ~CanCreateDestination(requestDidDoc)
        THEN HErr(<<"create destination">>, d.ctx, Some(rec1))
        ELSE
    Bind(CreateDestination(requestDidDoc), LAMBDA destination :
    Bind(IF Len(destination.MediaTypeProfiles) > 0
         THEN [rec1 EXCEPT !.MediaTypeProfiles = destination.MediaTypeProfiles]
         ELSE rec1,
         LAMBDA rec2 :
    Bind(responseAction(d.ctx, Send(Val(p.response), k.key, destination)),
         LAMBDA a :
        HOk(a.sends, Some(rec2), a.ctx, Some(rec2)))))))))))))))

\* handleInboundRequest(request, options, connRec)
handleInboundRequest(c, request, options, connRec, now, fail) ==
    Bind(getRequestConnection(request), LAMBDA q :
        IF Failed(q.err)
        THEN HErr(<<"extracting connection data from request">>, c, connRec)
        ELSE
    Bind(Val(q.conn), LAMBDA requestConnection :
    Bind(resolveDidDocFromConnection(c, requestConnection, fail), LAMBDA r :
        IF Failed(r.err)
        THEN HErr(<<"resolve did doc from exchange request connection">>,
                  r.ctx, connRec)
        ELSE
    Bind(getDIDDocAndConnection(
             r.ctx, getPublicDID(options), getRouterConnections(options), fail),
         LAMBDA d :
        IF Failed(d.err)
        THEN HErr(<<"get response did doc and connection">>, d.ctx, connRec)
        ELSE
    Bind(recipientKey(Val(d.doc)), LAMBDA k :
        IF Failed(k.err) THEN HErr(<<"handle inbound request">>, d.ctx, connRec)
        ELSE IF c.doACAPyInterop /\ ~CanConvertPeerToSov(Val(d.doc))
        THEN HErr(<<"converting my did doc to a 'sov' doc for response message">>,
                  d.ctx, connRec)
        ELSE
    Bind(IF c.doACAPyInterop THEN convertPeerToSov(Val(d.doc)) ELSE Val(d.doc),
         LAMBDA responseDidDoc :
    Bind(Val(d.conn), LAMBDA responseConnection :
    Bind(prepareResponse(d.ctx, request, responseDidDoc, responseConnection,
                         now, fail),
         LAMBDA p :
        IF p.panic THEN HPanic(d.ctx, connRec)
        ELSE IF Failed(p.err) THEN HErr(<<"preparing response">>, d.ctx, connRec)
        ELSE IF IsNil(connRec) THEN HPanic(d.ctx, connRec)
        ELSE
    Bind([Val(connRec) EXCEPT !.TheirDID = requestConnection.DID,
                              !.MyDID = responseConnection.DID,
                              !.TheirLabel = request.Label],
         LAMBDA rec1 :
    Bind(Val(r.doc), LAMBDA requestDidDoc :
        IF ~CanCreateDestination(requestDidDoc)
        THEN HErr(<<"create destination">>, d.ctx, Some(rec1))
        ELSE
    Bind(CreateDestination(requestDidDoc), LAMBDA destination :
    Bind(IF Len(destination.MediaTypeProfiles) > 0
         THEN [rec1 EXCEPT !.MediaTypeProfiles = destination.MediaTypeProfiles]
         ELSE rec1,
         LAMBDA rec2 :
    Bind(responseAction(d.ctx, Send(Val(p.response), k.key, destination)),
         LAMBDA a :
        HOk(a.sends, Some(rec2), a.ctx, Some(rec2)))))))))))))))

\* connectionRecorder.GetConnectionRecordByNSThreadID
HasRecord(c, nsThID) == nsThID \in DOMAIN c.recs /\ ~IsNil(c.recs[nsThID])
GetConnectionRecordByNSThreadID(c, nsThID) == Val(c.recs[nsThID])

\* handleInboundResponse(response); inRec is msg.connRecord, which this
\* handler does not read: it loads the record of the response's thread.
handleInboundResponse(c, response, inRec, fail) ==
    IF IsNil(response.Thread) THEN HPanic(c, inRec)
    ELSE
    Bind(Ack(NewUUID(c), ackStatusOK,
             Some(Thread(Val(response.Thread).ID, EmptyStr))),
         LAMBDA ack :
    Bind(Val(ack.Thread).ID, LAMBDA thid :
    Bind(CreateNamespaceKey(myNSPrefix, thid), LAMBDA nsThID :
        IF thid = EmptyStr THEN HErr(<<"empty bytes">>, c, inRec)
        ELSE IF fail = "getRecord" \/ ~HasRecord(c, nsThID)
        THEN HErr(<<"get connection record">>, c, inRec)
        ELSE
    Bind(GetConnectionRecordByNSThreadID(c, nsThID), LAMBDA connRecord :
        IF Len(connRecord.RecipientKeys) = 0 THEN HPanic(c, inRec)
        ELSE
    Bind(verifySignature(response.ConnectionSignature, connRecord.RecipientKeys[1]),
         LAMBDA v :
        IF v.panic THEN HPanic(c, inRec)
        ELSE IF Failed(v.err) THEN HErr(v.err, c, inRec)
        ELSE
    Bind(Val(v.conn), LAMBDA conn :
    Bind([connRecord EXCEPT !.TheirDID = conn.DID], LAMBDA rec :
    Bind(resolveDidDocFromConnection(c, conn, fail), LAMBDA r :
        IF Failed(r.err)
        THEN HErr(<<"resolve did doc from exchange response connection">>,
                  r.ctx, inRec)
        ELSE IF ~CanCreateDestination(Val(r.doc))
        THEN HErr(<<"prepare destination from response did doc">>, r.ctx, inRec)
        ELSE IF ~CanResolve(r.ctx, rec.MyDID, fail)
        THEN HErr(<<"fetching did document">>, r.ctx, inRec)
        ELSE
    Bind(CreateDestination(Val(r.doc)), LAMBDA destination :
    Bind(recipientKey(Resolve(r.ctx, rec.MyDID)), LAMBDA k :
    Bind(ackAction(r.ctx, Send(ack, k.key, destination)), LAMBDA a :
        IF Failed(k.err) THEN HErr(<<"handle inbound response">>, r.ctx, inRec)
        ELSE HOk(a.sends, Some(rec), a.ctx, inRec))))))))))))

\* ------------------------------------------------------------ state objects
\* (connRecord, state, action, err) of ExecuteInbound, with the context and
\* msg.connRecord as the call leaves them; a panic is a run-time fault.
XErr(e, c, inRec) ==
    [rec |-> Nil, state |-> NilState, action |-> Nil, err |-> e,
     panic |-> FALSE, ctx |-> c, inRec |-> inRec]

XOk(rec, state, sends, c, inRec) ==
    [rec |-> rec, state |-> state, action |-> Some(sends), err |-> NoErr,
     panic |-> FALSE, ctx |-> c, inRec |-> inRec]

\* What ExecuteInbound returns for a handler's result h.
XFrom(handled, wrap) ==
    Bind(handled, LAMBDA h :
        IF h.panic
        THEN [rec |-> Nil, state |-> NilState, action |-> Nil, err |-> NoErr,
              panic |-> TRUE, ctx |-> h.ctx, inRec |-> h.inRec]
        ELSE IF Failed(h.err) THEN XErr(wrap \o h.err, h.ctx, h.inRec)
        ELSE XOk(h.rec, stateNameNoop, Val(h.action), h.ctx, h.inRec))

illegalMsgType(type, name) == <<"illegal msg type", type, "for state", name>>

\* (s *noOp) ExecuteInbound
noOpExecuteInbound(c, msg) == XErr(<<"cannot execute no-op">>, c, msg.connRecord)

\* (s *null) ExecuteInbound: an empty record and no followup.
nullExecuteInbound(c, msg) ==
    [rec |-> Some(Record("", EmptyStr, EmptyStr, <<>>, FALSE)),
     state |-> stateNameNoop, action |-> Nil, err |-> NoErr, panic |-> FALSE,
     ctx |-> c, inRec |-> msg.connRecord]

\* A mutated invited state: it names itself as the followup.
invitedExecuteInboundAgain(c, msg) ==
    IF msg.body.Type # InvitationMsgType /\ msg.body.Type # oobMsgType
    THEN XErr(illegalMsgType(msg.body.Type, StateIDInvited), c, msg.connRecord)
    ELSE XOk(msg.connRecord, StateIDInvited, noAction, c, msg.connRecord)

\* A mutated invited state: it does not look at the message type.
invitedExecuteInboundAnyType(c, msg) ==
    XOk(msg.connRecord, StateIDRequested, noAction, c, msg.connRecord)

\* (s *invited) ExecuteInbound
invitedExecuteInbound(c, msg) ==
    IF msg.body.Type # InvitationMsgType /\ msg.body.Type # oobMsgType
    THEN XErr(illegalMsgType(msg.body.Type, StateIDInvited), c, msg.connRecord)
    ELSE XOk(msg.connRecord, StateIDRequested, noAction, c, msg.connRecord)

\* (s *requested) ExecuteInbound
requestedExecuteInbound(c, msg, thid, fail) ==
    CASE msg.body.Type = oobMsgType ->
            XFrom(handleInboundOOBInvitation(c, msg, thid, msg.options, fail),
                  <<"failed to handle inbound oob invitation">>)
      [] msg.body.Type = InvitationMsgType ->
            IF fail = "decode"
            THEN XErr(<<"JSON unmarshalling of invitation">>, c, msg.connRecord)
            ELSE XFrom(handleInboundInvitation(c, msg.body, thid, msg.options,
                                               msg.connRecord, fail),
                       <<"handle inbound invitation">>)
      [] msg.body.Type = RequestMsgType ->
            XOk(msg.connRecord, StateIDResponded, noAction, c, msg.connRecord)
      [] OTHER ->
            XErr(illegalMsgType(msg.body.Type, StateIDRequested), c, msg.connRecord)

\* (s *responded) ExecuteInbound
respondedExecuteInbound(c, msg, now, fail) ==
    CASE msg.body.Type = RequestMsgType ->
            IF fail = "decode"
            THEN XErr(<<"JSON unmarshalling of request">>, c, msg.connRecord)
            ELSE XFrom(handleInboundRequest(c, msg.body, msg.options,
                                            msg.connRecord, now, fail),
                       <<"handle inbound request">>)
      [] msg.body.Type \in {ResponseMsgType, CompleteMsgType} ->
            XOk(msg.connRecord, StateIDCompleted, noAction, c, msg.connRecord)
      [] OTHER ->
            XErr(illegalMsgType(msg.body.Type, StateIDResponded), c, msg.connRecord)

\* (s *completed) ExecuteInbound
completedExecuteInbound(c, msg, fail) ==
    CASE msg.body.Type = ResponseMsgType ->
            IF fail = "decode"
            THEN XErr(<<"JSON unmarshalling of response">>, c, msg.connRecord)
            ELSE XFrom(handleInboundResponse(c, msg.body, msg.connRecord, fail),
                       <<"handle inbound response">>)
      [] msg.body.Type = AckMsgType ->
            XOk(msg.connRecord, stateNameNoop, noAction, c, msg.connRecord)
      [] msg.body.Type = CompleteMsgType ->
            IF fail = "decode"
            THEN XErr(<<"JSON unmarshalling of complete">>, c, msg.connRecord)
            ELSE XOk(msg.connRecord, stateNameNoop, noAction, c, msg.connRecord)
      [] OTHER ->
            XErr(illegalMsgType(msg.body.Type, StateIDCompleted), c, msg.connRecord)

\* A mutated abandoned state: it accepts every message and has no followup.
abandonedExecuteInboundOk(c, msg) ==
    XOk(msg.connRecord, stateNameNoop, noAction, c, msg.connRecord)

\* (s *abandoned) ExecuteInbound
abandonedExecuteInbound(c, msg) == XErr(<<"not implemented">>, c, msg.connRecord)

\* s.ExecuteInbound(msg, thid, ctx), s being the state of name s, at UNIX
\* time now, with the collaborator failure fail.
ExecuteInbound(s, c, msg, thid, now, fail) ==
    CASE s = stateNameNoop -> noOpExecuteInbound(c, msg)
      [] s = stateNameNull -> nullExecuteInbound(c, msg)
      [] s = StateIDInvited -> invitedExecuteInbound(c, msg)
      [] s = StateIDRequested -> requestedExecuteInbound(c, msg, thid, fail)
      [] s = StateIDResponded -> respondedExecuteInbound(c, msg, now, fail)
      [] s = StateIDCompleted -> completedExecuteInbound(c, msg, fail)
      [] s = StateIDAbandoned -> abandonedExecuteInbound(c, msg)

\* ------------------------------------------------------------- the agents
Agents == {"alice", "bob"}
Peer(a) == IF a = "alice" THEN "bob" ELSE "alice"

\* Thread ids and UNIX times (seconds) of the model.
Thids == {<<"t1">>}
Times == {i * 1000000000 : i \in 0..MaxTime}

\* The key of alice's invitations, and a key of the environment.
InvKey == DIDKey("inv", 0)
EnvKey == DIDKey("env", 0)

\* A public DID every registry resolves.
PubDoc ==
    Doc(DID("sov", "pub", 0), <<"ep", "pub">>, <<DIDKey("pub", 0)>>, << <<"v1">> >>)

\* The invitations alice has made and stored: a legacy one and an OOB one.
Inv1 == Invitation(<<"inv", "1">>, EmptyStr, <<InvKey>>, <<"ep", "alice">>)
Oob1 ==
    OOBInvitation(<<"oob", "1">>,
                  Target("service", EmptyStr,
                         Service(<<InvKey>>, <<"ep", "alice">>, << <<"v1">> >>)),
                  << <<"v2">> >>, <<"lbl">>)

\* The namespace keys records are stored under.
NSKeys == {CreateNamespaceKey(myNSPrefix, t) : t \in Thids}

\* The context of agent a after construction.
InitCtx(a) ==
    [me |-> a,
     doACAPyInterop |-> FALSE,
     nkeys |-> 0,
     kms |-> IF a = "alice" THEN {CreateKID(PubKeyFromDIDKey(InvKey))} ELSE {},
     vdr |-> {PubDoc},
     dids |-> {},
     router |-> {},
     invs |-> IF a = "alice" THEN {Inv1, Oob1} ELSE {},
     recs |-> [k \in NSKeys |-> Nil],
     outbox |-> <<>>]

\* ------------------------------------------------------------ message loop
VARIABLES
    ctx,    \* ctx[a]: the collaborators of agent a
    pc,     \* pc[a]: where agent a's worker is in handling a message
    cur,    \* cur[a]: the message being handled and the last state's results
    done,   \* the (agent, thread, type) handled to the end without error
    codec   \* a direct use of the connection-signature codec

vars == <<ctx, pc, cur, done, codec>>

NoMsg == StateMachineMsg(Other(EmptyStr), Nil, Options(EmptyStr, <<>>, EmptyStr))

\* Nothing is being handled; err is the error the last handling ended with,
\* runs the states executed to their end for the message in hand (2 stands
\* for two or more).  When ExecuteInbound returned the error, came is the
\* record the message came in with and left is that record after the call.
NoCur ==
    [msg |-> NoMsg, thid |-> EmptyStr, next |-> NilState, rec |-> Nil,
     followup |-> NilState, action |-> Nil, err |-> NoErr, runs |-> 0,
     came |-> Nil, left |-> Nil]

\* The thread id of a message: its ~thread.thid, else its @id.
ThreadIDOf(body) ==
    IF ~IsNil(body.Thread) /\ Val(body.Thread).ID # EmptyStr
    THEN Val(body.Thread).ID ELSE body.ID

\* The state stored for a thread; null when nothing is stored.
currentState(c, thid) ==
    IF HasRecord(c, CreateNamespaceKey(myNSPrefix, thid))
    THEN GetConnectionRecordByNSThreadID(
             c, CreateNamespaceKey(myNSPrefix, thid)).State
    ELSE stateNameNull

\* The record pre-loaded for a message: a new one in state null for an
\* invitation or a request, the stored one for the later messages.
connectionRecord(c, body, thid) ==
    CASE body.Type = InvitationMsgType ->
            Some(Record(stateNameNull, thid, body.ID, body.RecipientKeys, FALSE))
      [] body.Type = oobMsgType ->
            Some(Record(stateNameNull, thid, body.ID,
                        getServiceBlock(c, body, "none").svc.RecipientKeys, FALSE))
      [] body.Type = RequestMsgType ->
            Some(Record(stateNameNull, thid,
                        IF IsNil(body.Thread) THEN EmptyStr ELSE Val(body.Thread).PID,
                        <<>>, FALSE))
      [] OTHER -> c.recs[CreateNamespaceKey(myNSPrefix, thid)]

SaveRecord(c, thid, rec) ==
    [c EXCEPT !.recs[CreateNamespaceKey(myNSPrefix, thid)] = Some(rec)]

\* A message reaches agent a with thread id thid: the expected state is
\* picked from its type and checked against the thread's current state.
\* A thread id the store has no place for is not handled.
ReceiveMsg(a, body, thid, options) ==
    /\ pc[a] = "idle"
    /\ IF ~ /\ stateFromMsgType(body.Type) # NilState
            /\ CreateNamespaceKey(myNSPrefix, thid) \in DOMAIN ctx[a].recs
            /\ CanTransitionTo(currentState(ctx[a], thid),
                               stateFromMsgType(body.Type))
       THEN UNCHANGED <<ctx, pc, cur, done>>
       ELSE /\ pc' = [pc EXCEPT ![a] = "exec"]
            /\ cur' = [cur EXCEPT ![a] =
                          [NoCur EXCEPT
                              !.msg = StateMachineMsg(
                                          body, connectionRecord(ctx[a], body, thid),
                                          options),
                              !.thid = thid,
                              !.next = stateFromMsgType(body.Type)]]
            /\ UNCHANGED <<ctx, done>>

\* The same, while the codec is not in direct use.
Receive(a, body, thid, options) ==
    /\ ReceiveMsg(a, body, thid, options)
    /\ UNCHANGED codec

\* The handling of a's message ends: with the error err, or done.
Finish(a, err) ==
    /\ cur' = [cur EXCEPT ![a] = [NoCur EXCEPT !.err = err]]
    /\ done' = IF err = NoErr /\ pc'[a] = "idle"
               THEN done \cup {<<a, cur[a].thid, cur[a].msg.body.Type>>}
               ELSE done

\* The state cur[a].next is executed.
Execute(a, now, fail) ==
    /\ pc[a] = "exec"
    /\ UNCHANGED codec
    /\ \E x \in {ExecuteInbound(cur[a].next, ctx[a], cur[a].msg, cur[a].thid,
                                 now, fail)} :
           /\ x.ctx.nkeys <= MaxDIDs
           /\ ctx' = [ctx EXCEPT ![a] = x.ctx]
           /\ IF x.panic
              THEN /\ pc' = [pc EXCEPT ![a] = "crashed"]
                   /\ Finish(a, NoErr)
              ELSE IF Failed(x.err)
              THEN /\ pc' = [pc EXCEPT ![a] = "idle"]
                   /\ cur' = [cur EXCEPT ![a] =
                                 [NoCur EXCEPT !.err = x.err,
                                               !.came = cur[a].msg.connRecord,
                                               !.left = x.inRec]]
                   /\ UNCHANGED done
              ELSE /\ pc' = [pc EXCEPT ![a] = "persist"]
                   /\ cur' = [cur EXCEPT ![a].rec = x.rec,
                                         ![a].followup = x.state,
                                         ![a].action = x.action]
                   /\ UNCHANGED done

\* The record returned is stored with the name of the state executed.
Persist(a, storeFails) ==
    /\ pc[a] = "persist"
    /\ UNCHANGED codec
    /\ IF IsNil(cur[a].rec)
       THEN /\ pc' = [pc EXCEPT ![a] = "crashed"]
            /\ Finish(a, NoErr)
            /\ UNCHANGED ctx
       ELSE IF storeFails
       THEN /\ pc' = [pc EXCEPT ![a] = "idle"]
            /\ Finish(a, <<"failed to update connection record">>)
            /\ UNCHANGED ctx
       ELSE /\ ctx' = [ctx EXCEPT ![a] =
                          SaveRecord(@, cur[a].thid,
                                     [Val(cur[a].rec) EXCEPT !.State = cur[a].next])]
            /\ pc' = [pc EXCEPT ![a] = "action"]
            /\ UNCHANGED <<cur, done>>

\* The action returned is run (a nil action cannot be called), and the
\* followup state comes next.
RunAction(a, sendFails) ==
    /\ pc[a] = "action"
    /\ UNCHANGED codec
    /\ IF IsNil(cur[a].action)
       THEN /\ pc' = [pc EXCEPT ![a] = "crashed"]
            /\ Finish(a, NoErr)
            /\ UNCHANGED ctx
       ELSE IF sendFails /\ Len(Val(cur[a].action)) > 0
       THEN /\ pc' = [pc EXCEPT ![a] = "idle"]
            /\ Finish(a, <<"failed to execute state action">>)
            /\ UNCHANGED ctx
       ELSE /\ Len(ctx[a].outbox) + Len(Val(cur[a].action)) <= MaxSent
            /\ ctx' = [ctx EXCEPT ![a].outbox = @ \o Val(cur[a].action)]
            /\ IF cur[a].followup = stateNameNoop
               THEN /\ pc' = [pc EXCEPT ![a] = "idle"]
                    /\ Finish(a, NoErr)
               ELSE /\ pc' = [pc EXCEPT ![a] = "exec"]
                    /\ cur' = [cur EXCEPT
                          ![a].msg.connRecord =
                              Some([Val(cur[a].rec) EXCEPT !.State = cur[a].next]),
                          ![a].next = cur[a].followup,
                          ![a].rec = Nil,
                          ![a].followup = NilState,
                          ![a].action = Nil,
                          ![a].runs = IF @ < 2 THEN @ + 1 ELSE @]
                    /\ UNCHANGED done

\* ------------------------------------------------------------ environment
\* The DID document of a party outside the two agents.
EnvDoc == Doc(DID("peer", "env", 0), <<"ep", "env">>, <<EnvKey>>, <<>>)

\* A ConnectionSignature over conn at time now by the key didKey, naming
\* signVerKey as its key.
SignatureBy(conn, now, didKey, signVerKey) ==
    ConnectionSignature(
        URLEncodeToString(PutUint64(now) \o JsonMarshal(conn)), signVerKey,
        URLEncodeToString(CryptoSign(PutUint64(now) \o JsonMarshal(conn),
                                     CreateKID(PubKeyFromDIDKey(didKey)))))

\* A ConnectionSignature by didKey over data with no connection bytes.
ShortSignatureBy(data, didKey) ==
    ConnectionSignature(
        URLEncodeToString(data), didKey,
        URLEncodeToString(CryptoSign(data, CreateKID(PubKeyFromDIDKey(didKey)))))

\* Invitations made outside: one with the environment's key, one with no key.
InvEnv == Invitation(<<"inv", "3">>, EmptyStr, <<EnvKey>>, <<"ep", "env">>)
InvNoKeys == Invitation(<<"inv", "2">>, EmptyStr, <<>>, <<"ep", "env">>)

EnvConn == Connection(EnvDoc.ID, Some(EnvDoc))

\* The invitations the environment may hand to an agent.
EnvInvitations == {Inv1, Oob1, InvEnv}

\* The later messages the environment may send on thread t.
EnvMessages(t) ==
    {Request(t, <<"lbl">>, Some(EnvConn), Some(Thread(EmptyStr, pid)), Nil) :
        pid \in {Inv1.ID, Oob1.ID, <<"inv", "9">>}}
    \cup {Request(t, <<"lbl">>, Some(EnvConn), Nil, Nil),
          Request(t, <<"lbl">>, Nil, Some(Thread(EmptyStr, Inv1.ID)), Nil),
          Request(t, <<"lbl">>, Some(Connection(EnvDoc.ID, Nil)),
                  Some(Thread(EmptyStr, Inv1.ID)), Nil)}
    \cup {Response(<<"env", "1">>, Some(Thread(t, EmptyStr)), sig, EmptyStr, Nil) :
            sig \in {Nil,
                     Some(SignatureBy(EnvConn, 0, EnvKey, EnvKey)),
                     Some(SignatureBy(EnvConn, 0, EnvKey, InvKey)),
                     Some(ShortSignatureBy(PutUint64(0), EnvKey))}}
    \cup {Response(t, Nil, Some(SignatureBy(EnvConn, 0, EnvKey, EnvKey)),
                   EmptyStr, Nil),
          Ack(<<"env", "2">>, ackStatusOK, Some(Thread(t, EmptyStr))),
          Complete(<<"env", "3">>, Some(Thread(t, EmptyStr))),
          Other(t)}

\* The options a message may be handled with.
OptionSet ==
    {Options(EmptyStr, <<>>, <<"lbl">>),
     Options(EmptyStr, << <<"r1">>, <<"r2">> >>, <<"lbl">>)}

\* The environment hands an invitation to agent a, on a new thread id.
ReceiveInvitation(a) ==
    \E body \in EnvInvitations, thid \in Thids, o \in OptionSet :
        Receive(a, body, thid, o)

\* The environment sends agent a a message of its own making.
ReceiveFromEnv(a) ==
    \E t \in Thids, o \in OptionSet :
        \E body \in EnvMessages(t) :
            Receive(a, body, IF body.Type = OtherMsgType THEN t ELSE ThreadIDOf(body), o)

\* A message the peer has dispatched reaches agent a (again, perhaps).
ReceiveFromPeer(a) ==
    \E i \in 1..Len(ctx[Peer(a)].outbox), o \in OptionSet :
        Receive(a, ctx[Peer(a)].outbox[i].msg,
                ThreadIDOf(ctx[Peer(a)].outbox[i].msg), o)

\* The codec is not in direct use.
NoCodec == [stage |-> "unused"]

Init ==
    /\ ctx = [a \in Agents |-> InitCtx(a)]
    /\ pc = [a \in Agents |-> "idle"]
    /\ cur = [a \in Agents |-> NoCur]
    /\ done = {}
    /\ codec = NoCodec

\* The agent under test in Spec; its peer is part of the environment.
Tested == {"alice"}

Next ==
    \E a \in Tested :
        \/ ReceiveInvitation(a)
        \/ ReceiveFromEnv(a)
        \/ \E now \in Times, fail \in FailPoints \cup {"none"} : Execute(a, now, fail)
        \/ \E storeFails \in BOOLEAN : Persist(a, storeFails)
        \/ \E sendFails \in BOOLEAN : RunAction(a, sendFails)

Spec == Init /\ [][Next]_vars

\* ------------------------------------------- one state execution, any state
\* The context of alice after she has handled the invitation inv on thread
\* thid: her DID is made and saved, her record is stored in state requested.
AfterInvitation(inv, thid) ==
    Bind(connectionRecord(InitCtx("alice"), inv, thid), LAMBDA rec :
    Bind(handleInboundInvitation(InitCtx("alice"), inv, thid,
                                 Options(EmptyStr, <<>>, <<"lbl">>), rec, "none"),
         LAMBDA h :
        SaveRecord(h.ctx, thid, [Val(h.rec) EXCEPT !.State = StateIDRequested])))

\* The contexts a state may be executed in.
AnyContexts ==
    {InitCtx("alice")}
    \cup {AfterInvitation(inv, t) : inv \in {Inv1, InvEnv, InvNoKeys}, t \in Thids}

\* An invitation by public DID alone, as an implicit invitation is.
InvImplicit == Invitation(<<"inv", "4">>, PubDoc.ID, <<>>, EmptyStr)

\* An OOB invitation whose target is neither a DID nor a service.
OobOther ==
    OOBInvitation(<<"oob", "3">>, Target("other", EmptyStr, NoService), <<>>,
                  <<"lbl">>)

\* A document with keys and no endpoint: no destination can be made of it.
EnvDocNoEndpoint == Doc(DID("peer", "env", 1), EmptyStr, <<EnvKey>>, <<>>)

\* The messages a state may be executed with.
AnyMessages(t) ==
    EnvInvitations \cup {InvImplicit, OobOther} \cup EnvMessages(t)
    \cup {Request(t, <<"lbl">>,
                  Some(Connection(EnvDocNoEndpoint.ID, Some(EnvDocNoEndpoint))),
                  Some(Thread(EmptyStr, Inv1.ID)), Nil)}

\* The record a state is executed with: the stored one, else a new one.
AnyRecord(c, body, thid) ==
    IF HasRecord(c, CreateNamespaceKey(myNSPrefix, thid))
    THEN c.recs[CreateNamespaceKey(myNSPrefix, thid)]
    ELSE Some(Record(stateNameNull, thid, EmptyStr, <<>>, FALSE))

\* A thread id that no message here is on.
OtherThid == <<"t2">>

\* The record of an implicit invitation, its parent thread id given.
ImplicitRecord(thid) ==
    Some(Record(stateNameNull, thid, <<"inv", "7">>, <<>>, TRUE))

\* Any state is about to be executed with any message, by alice.
InitAny ==
    /\ \E c \in AnyContexts : ctx = [a \in Agents |-> IF a = "alice" THEN c ELSE InitCtx(a)]
    /\ pc = [a \in Agents |-> IF a = "alice" THEN "exec" ELSE "idle"]
    /\ \E t \in Thids, s \in StateNames, o \in OptionSet :
          \E body \in AnyMessages(t) :
          \E rec \in {AnyRecord(ctx["alice"], body, t), ImplicitRecord(t),
                       ImplicitRecord(OtherThid), Nil} :
              cur = [a \in Agents |->
                        IF a = "alice"
                        THEN [NoCur EXCEPT
                                 !.msg = StateMachineMsg(body, rec, o),
                                 !.thid = t,
                                 !.next = s]
                        ELSE NoCur]
    /\ done = {}
    /\ codec = NoCodec

NextAny ==
    \E a \in Tested :
        \/ \E now \in Times, fail \in FailPoints \cup {"none"} : Execute(a, now, fail)
        \/ \E storeFails \in BOOLEAN : Persist(a, storeFails)
        \/ \E sendFails \in BOOLEAN : RunAction(a, sendFails)

SpecAny == InitAny /\ [][NextAny]_vars

\* ------------------------------------------------- two agents, nothing fails
\* bob is handed one of alice's invitations.
Invite ==
    \E body \in {Inv1, Oob1}, thid \in Thids, o \in OptionSet :
        Receive("bob", body, thid, o)

\* What either agent dispatched reaches the other.
Deliver == \E a \in Agents : ReceiveFromPeer(a)

\* A worker takes its next step; no collaborator, store or send fails.
Work ==
    \E a \in Agents :
        \/ \E now \in Times : Execute(a, now, "none")
        \/ Persist(a, FALSE)
        \/ RunAction(a, FALSE)

NextHappy == Invite \/ Deliver \/ Work

\* Messages handed over are delivered, and a worker with work to do does it.
SpecHappy ==
    /\ Init
    /\ [][NextHappy]_vars
    /\ WF_vars(Invite)
    /\ WF_vars(Deliver)
    /\ WF_vars(Work)

\* ------------------------------------------------ the codec, used directly
\* The keys, times and Connections the codec is used with.
CodecKeys == {InvKey, EnvKey}
CodecTimes == {0, 1000000000}
CodecConns ==
    {Connection(EmptyStr, Nil),
     Connection(DID(didMethod, "alice", 0), Nil),
     EnvConn,
     Connection(PubDoc.ID, Some(PubDoc))}

\* What a signature may name as its key: a key, or something that is none.
SignVerKeys == CodecKeys \cup {<<"key">>}

\* A context whose invitation <<"inv", "1">> has the recipient key key, the
\* KMS holding that key.
SignerCtx(key) ==
    [InitCtx("alice") EXCEPT
        !.kms = {CreateKID(PubKeyFromDIDKey(key))},
        !.invs = {Invitation(<<"inv", "1">>, EmptyStr, <<key>>, <<"ep", "alice">>)}]

\* A Connection, a signing key and a time are drawn.
InitCodec ==
    /\ ctx = [a \in Agents |-> InitCtx(a)]
    /\ pc = [a \in Agents |-> "idle"]
    /\ cur = [a \in Agents |-> NoCur]
    /\ done = {}
    /\ \E conn \in CodecConns, key \in CodecKeys, now \in CodecTimes :
          codec = [stage |-> "drawn", conn |-> conn, key |-> key, now |-> now,
                   sig |-> Nil, recipientKey |-> EmptyStr,
                   out |-> VerErr(NoErr)]

\* prepareConnectionSignature(conn, invitationID) under the key drawn.
Sign ==
    /\ codec.stage = "drawn"
    /\ codec' = [codec EXCEPT
                    !.stage = "signed",
                    !.sig = prepareConnectionSignature(
                                SignerCtx(codec.key), codec.conn, <<"inv", "1">>,
                                codec.now, "none").sig]
    /\ UNCHANGED <<ctx, pc, cur, done>>

\* The signature is made to name another key as its own.
Rename(key) ==
    /\ codec.stage = "signed"
    /\ Val(codec.sig).SignVerKey # key
    /\ codec' = [codec EXCEPT !.sig = Some([Val(codec.sig) EXCEPT !.SignVerKey = key])]
    /\ UNCHANGED <<ctx, pc, cur, done>>

\* verifySignature(sig, recipientKeys)
Verify(recipientKeys) ==
    /\ codec.stage = "signed"
    /\ codec' = [codec EXCEPT
                    !.stage = "verified",
                    !.recipientKey = recipientKeys,
                    !.out = verifySignature(codec.sig, recipientKeys)]
    /\ UNCHANGED <<ctx, pc, cur, done>>

\* Signed data too short to hold a Connection: none, a few bytes, the
\* timestamp alone.
ShortData(now) == {<<>>, <<1, 2, 3>>, PutUint64(now)}

\* The key drawn signs data that holds no Connection.
SignShort(data) ==
    /\ codec.stage = "drawn"
    /\ codec' = [codec EXCEPT
                    !.stage = "signedShort",
                    !.sig = Some(ShortSignatureBy(data, codec.key))]
    /\ UNCHANGED <<ctx, pc, cur, done>>

\* verifySignature(sig, recipientKeys) of such a signature.
VerifyShort(recipientKeys) ==
    /\ codec.stage = "signedShort"
    /\ codec' = [codec EXCEPT
                    !.stage = "verifiedShort",
                    !.recipientKey = recipientKeys,
                    !.out = verifySignature(codec.sig, recipientKeys)]
    /\ UNCHANGED <<ctx, pc, cur, done>>

NextCodec ==
    \/ Sign
    \/ \E key \in SignVerKeys : Rename(key)
    \/ \E recipientKeys \in CodecKeys : Verify(recipientKeys)
    \/ \E data \in ShortData(codec.now) : SignShort(data)
    \/ \E recipientKeys \in CodecKeys : VerifyShort(recipientKeys)

SpecCodec == InitCodec /\ [][NextCodec]_vars


\* ------------------------------------------------------- the state registry
\* The strings the registry is asked about: every message type and every
\* state name, each also where the other is expected, and strings that are
\* neither.
RegistryTypes == MsgTypes \cup StateNames \cup {""}
RegistryNames == StateNames \cup MsgTypes \cup {"", "Invited"}

\* A question to the registry: the function fn, its arguments arg, and the
\* state type whose name is asked about, if one is.
Asked(fn, arg, kind) ==
    [stage |-> "asked", fn |-> fn, arg |-> arg, kind |-> kind, out |-> Nil]

\* One question is drawn.
InitRegistry ==
    /\ ctx = [a \in Agents |-> InitCtx(a)]
    /\ pc = [a \in Agents |-> "idle"]
    /\ cur = [a \in Agents |-> NoCur]
    /\ done = {}
    /\ codec \in {Asked("CanTransitionTo", <<s, next>>, Nil) : s, next \in StateNames}
                 \cup {Asked("stateFromMsgType", <<msgType>>, Nil) : msgType \in RegistryTypes}
                 \cup {Asked("stateFromName", <<name>>, Nil) : name \in RegistryNames}
                 \cup {Asked("Name", <<s>>, Nil) : s \in StateKinds}

\* s.CanTransitionTo(next)
Transition ==
    /\ codec.stage = "asked" /\ codec.fn = "CanTransitionTo"
    /\ codec' = [codec EXCEPT
                    !.stage = "answered",
                    !.out = Some(CanTransitionTo(codec.arg[1], codec.arg[2]))]
    /\ UNCHANGED <<ctx, pc, cur, done>>

\* stateFromMsgType(msgType)
FromMsgType ==
    /\ codec.stage = "asked" /\ codec.fn = "stateFromMsgType"
    /\ codec' = [codec EXCEPT
                    !.stage = "answered",
                    !.out = Some(stateFromMsgType(codec.arg[1]))]
    /\ UNCHANGED <<ctx, pc, cur, done>>

\* s.Name(), the name then being asked about.
NameOf ==
    /\ codec.stage = "asked" /\ codec.fn = "Name"
    /\ codec' = Asked("stateFromName", <<Name(codec.arg[1])>>, Some(codec.arg[1]))
    /\ UNCHANGED <<ctx, pc, cur, done>>

\* stateFromName(name)
FromName ==
    /\ codec.stage = "asked" /\ codec.fn = "stateFromName"
    /\ codec' = [codec EXCEPT
                    !.stage = "answered",
                    !.out = Some(stateFromName(codec.arg[1]))]
    /\ UNCHANGED <<ctx, pc, cur, done>>

NextRegistry == Transition \/ FromMsgType \/ NameOf \/ FromName

SpecRegistry == InitRegistry /\ [][NextRegistry]_vars

\* --------------------------------------------- DID and Connection assembly
\* The public DID option: not set, a DID the registry resolves, one it does
\* not.
DocDIDs == {EmptyStr, PubDoc.ID, DID("sov", "pub", 1)}

\* The router connections option.
DocRouters == {<<>>, << <<"r1">> >>, << <<"r1">>, <<"r2">> >>}

\* No call of getDIDDocAndConnection has been made.
NoCall ==
    [stage |-> "drawn", pubDID |-> EmptyStr, routerConnections |-> <<>>,
     fail |-> "none", out |-> [err |-> NoErr, doc |-> Nil, conn |-> Nil]]

\* A context of alice is drawn.
InitDoc ==
    /\ \E c \in AnyContexts : ctx = [a \in Agents |-> IF a = "alice" THEN c ELSE InitCtx(a)]
    /\ pc = [a \in Agents |-> "idle"]
    /\ cur = [a \in Agents |-> NoCur]
    /\ done = {}
    /\ codec = NoCall

\* ctx.getDIDDocAndConnection(pubDID, routerConnections), by alice.
GetDoc(pubDID, routerConnections, fail) ==
    /\ codec.stage = "drawn"
    /\ \E x \in {getDIDDocAndConnection(ctx["alice"], pubDID, routerConnections, fail)} :
          /\ x.ctx.nkeys <= MaxDIDs
          /\ ctx' = [ctx EXCEPT !["alice"] = x.ctx]
          /\ codec' = [stage |-> "called", pubDID |-> pubDID,
                       routerConnections |-> routerConnections, fail |-> fail,
                       out |-> [err |-> x.err, doc |-> x.doc, conn |-> x.conn]]
    /\ UNCHANGED <<pc, cur, done>>

\* The Connections of a remote party: with no document (its DID known to
\* the registry or not), with a peer, a sov or a key document, and with a
\* document whose id is no DID.
RemoteConns ==
    {Connection(PubDoc.ID, Nil),
     Connection(DID("sov", "pub", 1), Nil),
     EnvConn,
     Connection(PubDoc.ID, Some(PubDoc)),
     Connection(EnvKey, Some(Doc(EnvKey, <<"ep", "env">>, <<EnvKey>>, <<>>))),
     Connection(<<"env">>, Some(Doc(<<"env">>, <<"ep", "env">>, <<EnvKey>>, <<>>)))}

\* ctx.resolveDidDocFromConnection(conn), by alice.
ResolveDoc(conn, fail) ==
    /\ codec.stage = "drawn"
    /\ \E x \in {resolveDidDocFromConnection(ctx["alice"], conn, fail)} :
          /\ ctx' = [ctx EXCEPT !["alice"] = x.ctx]
          /\ codec' = [stage |-> "resolved", conn |-> conn, fail |-> fail,
                       out |-> [err |-> x.err, doc |-> x.doc, calls |-> x.calls]]
    /\ UNCHANGED <<pc, cur, done>>

\* OOB invitations with each kind of target: a DID the registry resolves
\* and one it does not, a service struct, a map, anything else; each with
\* media type profiles and with none.
BlockInvitations ==
    {OOBInvitation(<<"oob", "2">>, target, profiles, <<"lbl">>) :
        target \in {Target("did", PubDoc.ID, NoService),
                    Target("did", DID("sov", "pub", 1), NoService),
                    Target("service", EmptyStr,
                           Service(<<InvKey>>, <<"ep", "alice">>, << <<"v1">> >>)),
                    Target("service", EmptyStr,
                           Service(<<InvKey>>, <<"ep", "alice">>, <<>>)),
                    Target("map", EmptyStr,
                           Service(<<EnvKey>>, <<"ep", "env">>, << <<"v1">> >>)),
                    Target("other", EmptyStr, NoService)},
        profiles \in {<<>>, << <<"v2">> >>, << <<"v2">>, <<"v1">> >>}}

\* ctx.getServiceBlock(i), by alice.
ServiceBlock(i, fail) ==
    /\ codec.stage = "drawn"
    /\ codec' = [stage |-> "block", i |-> i, fail |-> fail,
                 out |-> getServiceBlock(ctx["alice"], i, fail)]
    /\ UNCHANGED <<ctx, pc, cur, done>>

\* The invitations of the store getVerKey is asked about: a legacy one with
\* a key, one with a DID, one with a DID the registry does not know, one
\* stored under an id that is a DID, one with neither key nor DID; an OOB
\* one with a service and one with a DID.
StoredInvitations ==
    {Inv1,
     Invitation(<<"inv", "4">>, PubDoc.ID, <<>>, EmptyStr),
     Invitation(<<"inv", "5">>, DID("sov", "pub", 1), <<InvKey>>, EmptyStr),
     Invitation(PubDoc.ID, EmptyStr, <<EnvKey>>, <<"ep", "env">>),
     Invitation(<<"inv", "6">>, EmptyStr, <<>>, <<"ep", "env">>),
     Oob1,
     OOBInvitation(<<"oob", "3">>, Target("did", PubDoc.ID, NoService), <<>>, <<"lbl">>)}

\* The ids it is asked for: those of the store, one the store does not
\* have, and a DID that is neither stored nor resolved.
AskedIDs ==
    {i.ID : i \in StoredInvitations} \cup {<<"inv", "9">>, DID("sov", "pub", 1)}

\* ctx.getVerKey(invitationID), by alice with that store.
VerKey(invitationID, fail) ==
    /\ codec.stage = "drawn"
    /\ codec' = [stage |-> "verkey", id |-> invitationID, fail |-> fail,
                 out |-> getVerKey([ctx["alice"] EXCEPT !.invs = StoredInvitations],
                                   invitationID, fail)]
    /\ UNCHANGED <<ctx, pc, cur, done>>

\* The Requests of a remote party on alice's invitation: its document with
\* or without media types, an attachment that is absent, signed, or signed
\* by nobody, the thread decorator present or not.
DocRequests ==
    {Request(<<"t1">>, <<"lbl">>, Some(Connection(doc.ID, Some(doc))), thread, attach) :
        doc \in {EnvDoc, [EnvDoc EXCEPT !.accept = << <<"v2">> >>]},
        thread \in {Some(Thread(EmptyStr, Inv1.ID)), Nil},
        attach \in {Nil, Some(AttachmentSign(<<1, 2>>, EnvKey)),
                    Some(Attachment(<<1, 2>>, <<9>>, EnvKey))}}

\* The records a Request is handled with: a new one, and one with every
\* field set.
DocRecords ==
    {Record(stateNameNull, <<"t1">>, Inv1.ID, <<>>, FALSE),
     [Record(stateNameNull, <<"t1">>, Inv1.ID, <<InvKey>>, TRUE)
         EXCEPT !.MediaTypeProfiles = << <<"v1">> >>]}

\* ctx.handleInboundRequest(request, options, connRec), by alice, the
\* interop flag of her context being interop.
HandleRequest(request, options, connRec, interop, fail) ==
    /\ codec.stage = "drawn"
    /\ \E x \in {handleInboundRequest(
                     [ctx["alice"] EXCEPT !.doACAPyInterop = interop],
                     request, options, Some(connRec), 0, fail)} :
          /\ x.ctx.nkeys <= MaxDIDs
          /\ ctx' = [ctx EXCEPT !["alice"] = x.ctx]
          /\ codec' = [stage |-> "request", request |-> request,
                       options |-> options, connRec |-> connRec,
                       interop |-> interop, fail |-> fail,
                       out |-> [err |-> x.err, panic |-> x.panic,
                                action |-> x.action, rec |-> x.rec]]
    /\ UNCHANGED <<pc, cur, done>>

NextDoc ==
    \/ \E request \in DocRequests, connRec \in DocRecords, interop \in BOOLEAN,
          options \in OptionSet \cup {Options(PubDoc.ID, <<>>, <<"lbl">>)},
          fail \in {"none", "resolve", "create", "kmsGet", "sign", "saveDID"} :
           HandleRequest(request, options, connRec, interop, fail)
    \/ \E invitationID \in AskedIDs, fail \in {"none", "getInvitation", "resolve"} :
           VerKey(invitationID, fail)
    \/ \E i \in BlockInvitations, fail \in {"none", "resolve", "decode"} :
           ServiceBlock(i, fail)
    \/ \E pubDID \in DocDIDs, routerConnections \in DocRouters,
          fail \in {"none", "resolve", "routerConfig", "kmsCreate", "create",
                    "addKey", "addKey2", "saveDID"} :
           GetDoc(pubDID, routerConnections, fail)
    \/ \E conn \in RemoteConns, fail \in {"none", "resolve", "create"} :
           ResolveDoc(conn, fail)

SpecDoc == InitDoc /\ [][NextDoc]_vars

\* ------------------------------------------- two threads of one agent
\* alice's context with a place for the records of two threads.
ThreadCtx ==
    [InitCtx("alice") EXCEPT
        !.recs = [k \in NSKeys \cup {CreateNamespaceKey(myNSPrefix, OtherThid)}
                     |-> Nil]]

TwoThids == Thids \cup {OtherThid}

\* A message as it arrives, with the options it is handled with.
Arrival(body) == [body |-> body, options |-> Options(EmptyStr, <<>>, <<"lbl">>)]

\* The messages of each thread, in their arrival order.  On <<"t1">> alice
\* accepts the environment's invitation and is answered with a Connection
\* that names the environment's DID without its document; on <<"t2">> the
\* environment answers alice's invitation with a request that carries the
\* document.
ThreadMsgs(t) ==
    IF t = OtherThid
    THEN << Arrival(Request(t, <<"lbl">>, Some(EnvConn),
                            Some(Thread(EmptyStr, Inv1.ID)), Nil)) >>
    ELSE << Arrival(InvEnv),
            Arrival(Response(<<"env", "1">>, Some(Thread(t, EmptyStr)),
                             Some(SignatureBy(Connection(EnvDoc.ID, Nil), 0,
                                              EnvKey, EnvKey)),
                             EmptyStr, Nil)) >>

\* "alice" is handed the messages of both threads, "bob" stands for alice
\* handed the messages of the thread codec.alone only; codec.pos counts the
\* messages of each thread that have arrived.
InitThreads ==
    /\ ctx = [a \in Agents |-> ThreadCtx]
    /\ pc = [a \in Agents |-> "idle"]
    /\ cur = [a \in Agents |-> NoCur]
    /\ done = {}
    /\ \E t \in TwoThids :
           codec = [stage |-> "threads", alone |-> t,
                    pos |-> [a \in Agents |-> [u \in TwoThids |-> 0]]]

\* The threads whose messages agent a is handed.
ThreadsOf(a) == IF a = "alice" THEN TwoThids ELSE {codec.alone}

\* The next message of thread t reaches a's idle worker.
Arrive(a, t) ==
    /\ t \in ThreadsOf(a)
    /\ codec.pos[a][t] < Len(ThreadMsgs(t))
    /\ ReceiveMsg(a, ThreadMsgs(t)[codec.pos[a][t] + 1].body, t,
                  ThreadMsgs(t)[codec.pos[a][t] + 1].options)
    /\ codec' = [codec EXCEPT !.pos[a][t] = @ + 1]

\* A worker takes its next step; nothing fails.
WorkThreads ==
    \E a \in Agents :
        \/ Execute(a, 0, "none")
        \/ Persist(a, FALSE)
        \/ RunAction(a, FALSE)

NextThreads ==
    \/ \E a \in Agents, t \in TwoThids : Arrive(a, t)
    \/ WorkThreads

SpecThreads == InitThreads /\ [][NextThreads]_vars

\* ------------------------------------- the signer and verifier over a crypto
\* The crypto.Crypto implementations wrapped: one that signs and verifies
\* Ed25519, and one whose every call fails.
Cryptos == {"ed25519", "failing"}

\* cr.Sign(msg, kh): (signature, error)
CrSign(cr, msg, kh) ==
    IF cr = "failing"
    THEN [sig |-> <<>>, err |-> <<"sign failed">>]
    ELSE [sig |-> CryptoSign(msg, kh), err |-> NoErr]

\* cr.Verify(signature, msg, kh): error
CrVerify(cr, signature, msg, kh) ==
    IF cr = "failing" THEN <<"verify failed">>
    ELSE IF SuiteVerify(kh, msg, signature) THEN NoErr
    ELSE <<"invalid signature">>

\* NewCryptoSigner(cr, kh)
NewCryptoSigner(cr, kh) == [cr |-> cr, kh |-> kh]

\* (s *CryptoSigner) Sign(msg): what it returns, and s after the call.
CryptoSignerSign(s, msg) ==
    [out |-> CrSign(s.cr, msg, s.kh), self |-> s]

\* NewCryptoVerifier(cr)
NewCryptoVerifier(cr) == [cr |-> cr]

\* A mutated verifier: the message and the signature change places.
CryptoVerifierVerifySwapped(v, kh, msg, signature) ==
    [err |-> CrVerify(v.cr, msg, signature, kh), self |-> v]

\* (v *CryptoVerifier) Verify(kh, msg, signature): the error it returns, and
\* v after the call.
CryptoVerifierVerify(v, kh, msg, signature) ==
    [err |-> CrVerify(v.cr, signature, msg, kh), self |-> v]

\* The messages signed, and the public keys and key handles in use.
SuiteMsgs == {<<>>, <<1>>, <<1, 2>>}
SuiteKeys == {PubKeyFromDIDKey(k) : k \in CodecKeys}

\* A signer and a verifier are made over one crypto; made holds what the
\* signer has signed, last the last call and what it returned.
InitSuite ==
    /\ ctx = [a \in Agents |-> InitCtx(a)]
    /\ pc = [a \in Agents |-> "idle"]
    /\ cur = [a \in Agents |-> NoCur]
    /\ done = {}
    /\ \E cr \in Cryptos, key \in SuiteKeys :
          codec = [stage |-> "suite", cr |-> cr, kh |-> CreateKID(key),
                   signer |-> NewCryptoSigner(cr, CreateKID(key)),
                   verifier |-> NewCryptoVerifier(cr),
                   made |-> {},
                   last |-> [op |-> "none"]]

\* signer.Sign(msg)
SignerSign(msg) ==
    /\ codec.stage = "suite"
    /\ \E x \in {CryptoSignerSign(codec.signer, msg)} :
          codec' = [codec EXCEPT
                       !.signer = x.self,
                       !.made = IF Failed(x.out.err) THEN @
                                ELSE @ \cup {[msg |-> msg, sig |-> x.out.sig]},
                       !.last = [op |-> "sign", msg |-> msg, out |-> x.out]]
    /\ UNCHANGED <<ctx, pc, cur, done>>

\* verifier.Verify(pubKey, msg, signature), the signature one the signer
\* made or one nobody made.
VerifierVerify(pubKey, msg, signature) ==
    /\ codec.stage = "suite"
    /\ signature \in {m.sig : m \in codec.made} \cup {<<9>>}
    /\ \E x \in {CryptoVerifierVerify(codec.verifier, pubKey, msg, signature)} :
          codec' = [codec EXCEPT
                       !.verifier = x.self,
                       !.last = [op |-> "verify", pubKey |-> pubKey, msg |-> msg,
                                 signature |-> signature, err |-> x.err]]
    /\ UNCHANGED <<ctx, pc, cur, done>>

NextSuite ==
    \/ \E msg \in SuiteMsgs : SignerSign(msg)
    \/ \E pubKey \in SuiteKeys, msg \in SuiteMsgs,
          signature \in {m.sig : m \in codec.made} \cup {<<9>>} :
           VerifierVerify(pubKey, msg, signature)

SpecSuite == InitSuite /\ [][NextSuite]_vars
\* ------------------------------------------------------------------ claims
\* The key a thread's record is stored under.
NSKey(thid) == CreateNamespaceKey(myNSPrefix, thid)

\* The Sends running the action of cur[a] makes.
Sends(a) == IF IsNil(cur[a].action) THEN <<>> ELSE Val(cur[a].action)

\* C1: every change of a stored record's state, and every store of a record
\* under the name of the state executed (the followup states included),
\* goes from a state s to a state s' with s.CanTransitionTo(s').
C1_TransitionsAreLegal ==
    [][\A a \in Agents, t \in Thids :
          (\/ currentState(ctx'[a], t) # currentState(ctx[a], t)
           \/ (pc[a] = "persist" /\ pc'[a] = "action" /\ cur[a].thid = t))
          => CanTransitionTo(currentState(ctx[a], t), currentState(ctx'[a], t))]_vars

\* C1 happens: a record went null -> invited -> requested -> responded ->
\* completed is not one thread's path, but responded -> completed by a
\* followup is: the invitee's record is completed after a Response.
C1_Witness ==
    /\ pc["alice"] = "idle"
    /\ <<"alice", <<"t1">>, ResponseMsgType>> \in done
    /\ currentState(ctx["alice"], <<"t1">>) = StateIDCompleted

\* C2: with the invitation handed to the invitee, every message delivered
\* and nothing failing, both records are eventually completed.
C2_HappyPathCompletes ==
    <>(\E t \in Thids : \A a \in Agents : currentState(ctx[a], t) = StateIDCompleted)

\* C2 happens: both records are completed, the Ack having been handled.
C2_Witness ==
    /\ \A a \in Agents : currentState(ctx[a], <<"t1">>) = StateIDCompleted
    /\ <<"alice", <<"t1">>, AckMsgType>> \in done
    /\ <<"bob", <<"t1">>, ResponseMsgType>> \in done

\* The message types a state's ExecuteInbound accepts.
Accepts(s) ==
    CASE s = StateIDInvited -> {InvitationMsgType, oobMsgType}
      [] s = StateIDRequested -> {oobMsgType, InvitationMsgType, RequestMsgType}
      [] s = StateIDResponded -> {RequestMsgType, ResponseMsgType, CompleteMsgType}
      [] s = StateIDCompleted -> {ResponseMsgType, AckMsgType, CompleteMsgType}

\* C3: executing invited, requested, responded or completed with a message
\* of a type the state does not accept ends with the error "illegal msg type
\* <type> for state <name>", no record, no next state and no action, and
\* changes nothing the agent holds; with a type it accepts it never ends
\* with that error.
C3_WrongTypeRejected ==
    [][\A a \in Agents :
          (/\ pc[a] = "exec"
           /\ cur[a].next \in {StateIDInvited, StateIDRequested, StateIDResponded,
                               StateIDCompleted})
          => IF cur[a].msg.body.Type \notin Accepts(cur[a].next)
             THEN /\ pc'[a] = "idle"
                  /\ cur'[a].err = illegalMsgType(cur[a].msg.body.Type, cur[a].next)
                  /\ IsNil(cur'[a].rec)
                  /\ cur'[a].followup = NilState
                  /\ IsNil(cur'[a].action)
                  /\ ctx'[a] = ctx[a]
             ELSE cur'[a].err # illegalMsgType(cur[a].msg.body.Type, cur[a].next)]_vars

\* C3 happens: invited was given a Response.
C3_Witness ==
    /\ pc["alice"] = "idle"
    /\ cur["alice"].err = <<"illegal msg type", "response", "for state", "invited">>

\* C4: a message is never taken up on a thread on which a message of its
\* type was already handled to the end; it is rejected, which changes
\* nothing.
C4_NoSecondExecution ==
    [][\A a \in Agents :
          (pc[a] = "idle" /\ pc'[a] = "exec")
          => <<a, cur'[a].thid, cur'[a].msg.body.Type>> \notin done]_vars

\* C4 happens: a Response was handled to the end, and the worker is idle, so
\* that a second Response is delivered and rejected.
C4_Witness ==
    /\ pc["alice"] = "idle"
    /\ <<"alice", <<"t1">>, ResponseMsgType>> \in done
    /\ Len(ctx["alice"].outbox) = 2
    /\ ctx["alice"].outbox[2].msg.Type = AckMsgType

\* Whether the signature sig over its signed data was made with the key of
\* the did:key string key.
SignedWith(sig, key) ==
    /\ URLDecodable(sig.SignedData)
    /\ URLDecodable(sig.Signature)
    /\ IsDIDKey(key)
    /\ SuiteVerify(PubKeyFromDIDKey(key), URLDecodeString(sig.SignedData),
                   URLDecodeString(sig.Signature))

\* The Connection in the signed data of sig, after the timestamp.
SignedConnection(sig) ==
    JsonUnmarshal(SubSeq(URLDecodeString(sig.SignedData), timestamplen + 1,
                         Len(URLDecodeString(sig.SignedData))))

\* C5: completed executed with a Response (its thread and signature given)
\* goes on to an Ack and sets TheirDID only when the signature was made with
\* the first recipient key of the record stored for the response's thread;
\* with no such record, or a signature not made with that key, it ends with
\* an error, no record and no action, and nothing is dispatched.
C5_AckOnlyForVerifiedResponse ==
    [][\A a \in Agents :
          (/\ pc[a] = "exec"
           /\ cur[a].next = StateIDCompleted
           /\ cur[a].msg.body.Type = ResponseMsgType
           /\ ~IsNil(cur[a].msg.body.Thread)
           /\ ~IsNil(cur[a].msg.body.ConnectionSignature))
          => LET sig == Val(cur[a].msg.body.ConnectionSignature)
                 k == NSKey(Val(cur[a].msg.body.Thread).ID)
                 known == HasRecord(ctx[a], k)
                 keys == GetConnectionRecordByNSThreadID(ctx[a], k).RecipientKeys
             IN  /\ pc'[a] = "persist"
                    => /\ known
                       /\ Len(keys) > 0
                       /\ SignedWith(sig, keys[1])
                       /\ Val(cur'[a].rec).TheirDID = SignedConnection(sig).DID
                       /\ Len(Val(cur'[a].action)) = 1
                       /\ Val(cur'[a].action)[1].msg.Type = AckMsgType
                 /\ (~known \/ (Len(keys) > 0 /\ ~SignedWith(sig, keys[1])))
                    => /\ pc'[a] = "idle"
                       /\ Failed(cur'[a].err)
                       /\ IsNil(cur'[a].rec)
                       /\ IsNil(cur'[a].action)
                       /\ ctx'[a].outbox = ctx[a].outbox]_vars

\* C5 happens: a Response signed with the invitation's key was verified, the
\* record has the signer's DID and the Ack is about to be sent.
C5_Witness ==
    /\ pc["alice"] = "action"
    /\ cur["alice"].next = StateIDCompleted
    /\ cur["alice"].msg.body.Type = ResponseMsgType
    /\ Val(cur["alice"].rec).TheirDID = EnvDoc.ID
    /\ Val(cur["alice"].rec).RecipientKeys = <<EnvKey>>
    /\ Len(Sends("alice")) = 1
    /\ Sends("alice")[1].msg.Type = AckMsgType

\* C6: what verifySignature returned for a signature and a recipient key is
\* what it returns for the same signature naming any other SignVerKey.
C6_SignVerKeyIgnored ==
    codec.stage = "verified"
    => \A key \in SignVerKeys :
          verifySignature(Some([Val(codec.sig) EXCEPT !.SignVerKey = key]),
                          codec.recipientKey) = codec.out

\* C6 happens: a signature naming the recipient key as its own, made with
\* another key, was refused.
C6_Witness ==
    /\ codec.stage = "verified"
    /\ codec.recipientKey # codec.key
    /\ Val(codec.sig).SignVerKey = codec.recipientKey
    /\ codec.out.err = <<"verify signature">>

\* C7: the signature prepareConnectionSignature makes for a Connection under
\* a key verifies under that key to an equal Connection, and its signed data
\* is longer than the timestamp.
C7_RoundTrip ==
    (codec.stage = "verified" /\ codec.recipientKey = codec.key)
    => /\ ~codec.out.panic
       /\ codec.out.err = NoErr
       /\ codec.out.conn = Some(codec.conn)
       /\ Len(URLDecodeString(Val(codec.sig).SignedData)) > timestamplen

\* C7 happens: a Connection with its document, signed at 1000000000, came
\* back from verification.
C7_Witness ==
    /\ codec.stage = "verified"
    /\ codec.recipientKey = codec.key
    /\ codec.now = 1000000000
    /\ codec.conn = EnvConn
    /\ codec.out.conn = Some(EnvConn)

\* C8: what an agent has dispatched changes only when an action is run,
\* never while a state is executed, and by then the record returned is
\* stored under the name of the state executed.
C8_PersistBeforeSend ==
    [][\A a \in Agents :
          ctx'[a].outbox # ctx[a].outbox
          => /\ pc[a] = "action"
             /\ HasRecord(ctx[a], NSKey(cur[a].thid))
             /\ GetConnectionRecordByNSThreadID(ctx[a], NSKey(cur[a].thid))
                   = [Val(cur[a].rec) EXCEPT !.State = cur[a].next]]_vars

\* C8 (every side effect): what an agent has dispatched, and what it has
\* registered with its routers, changes only when an action is run, the
\* record returned being stored by then.
C8_PersistBeforeEverySideEffect ==
    [][\A a \in Agents :
          (ctx'[a].outbox # ctx[a].outbox \/ ctx'[a].router # ctx[a].router)
          => /\ pc[a] = "action"
             /\ HasRecord(ctx[a], NSKey(cur[a].thid))
             /\ GetConnectionRecordByNSThreadID(ctx[a], NSKey(cur[a].thid))
                   = [Val(cur[a].rec) EXCEPT !.State = cur[a].next]]_vars

\* C8 happens: a Response was dispatched, the record being stored in state
\* responded.
C8_Witness ==
    /\ Len(ctx["alice"].outbox) = 1
    /\ ctx["alice"].outbox[1].msg.Type = ResponseMsgType
    /\ currentState(ctx["alice"], <<"t1">>) = StateIDResponded

\* The Sends the action of state s executed with a message of type type makes.
Dispatches(s, type) ==
    IF \/ s = StateIDRequested /\ type \in {InvitationMsgType, oobMsgType}
       \/ s = StateIDResponded /\ type = RequestMsgType
       \/ s = StateIDCompleted /\ type = ResponseMsgType
    THEN 1 ELSE 0

\* C9: the action of a successful state execution makes one Send for an
\* invitation executed in requested (a Request), a Request in responded (a
\* Response) and a Response in completed (an Ack), and none otherwise;
\* running it dispatches just that.
C9_OneSendOrNone ==
    [][\A a \in Agents :
          pc[a] = "action"
          => /\ Len(Sends(a)) = Dispatches(cur[a].next, cur[a].msg.body.Type)
             /\ Len(Sends(a)) = 1
                => Sends(a)[1].msg.Type =
                      CASE cur[a].next = StateIDRequested -> RequestMsgType
                        [] cur[a].next = StateIDResponded -> ResponseMsgType
                        [] cur[a].next = StateIDCompleted -> AckMsgType
             /\ ctx'[a].outbox \in {ctx[a].outbox, ctx[a].outbox \o Sends(a)}]_vars

\* C9 happens: the action of responded, executed with a Request, was run and
\* dispatched one Response.
C9_Witness ==
    /\ pc["alice"] = "idle"
    /\ cur["alice"].err = NoErr
    /\ <<"alice", <<"t1">>, RequestMsgType>> \in done
    /\ Len(ctx["alice"].outbox) = 1
    /\ ctx["alice"].outbox[1].msg.Type = ResponseMsgType

\* C10: a state execution that ends with an error leaves the connection
\* store, the DID store and the router's key registrations as they were.
C10_NoPartialPersistence ==
    [][\A a \in Agents :
          (pc[a] = "exec" /\ pc'[a] = "idle")
          => /\ Failed(cur'[a].err)
             /\ ctx'[a].recs = ctx[a].recs
             /\ ctx'[a].dids = ctx[a].dids
             /\ ctx'[a].router = ctx[a].router]_vars

\* The stored record of thread thid of agent a, in the state given.
StoredRecord(c, thid) == GetConnectionRecordByNSThreadID(c, NSKey(thid))

\* C11: when the loop ends handling an Invitation that gives an ID, recipient
\* keys and a service endpoint, on a thread whose record was in state null,
\* the record is stored in state requested with MyDID the local DID, and the
\* one message dispatched is a Request with ID = thid and Thread.PID = the
\* invitation's ID, sent to the destination made of the invitation's keys
\* and endpoint.
C11_InviteeHappyPath ==
    [][\A a \in Agents :
          (/\ pc[a] = "action"
           /\ cur[a].next = StateIDRequested
           /\ cur[a].msg.body.Type = InvitationMsgType
           /\ cur[a].msg.body.DID = EmptyStr
           /\ cur[a].msg.body.RecipientKeys # <<>>
           /\ cur[a].msg.body.ServiceEndpoint # EmptyStr
           /\ pc'[a] = "idle"
           /\ cur'[a].err = NoErr)
          => /\ HasRecord(ctx'[a], NSKey(cur[a].thid))
             /\ StoredRecord(ctx'[a], cur[a].thid).State = StateIDRequested
             /\ StoredRecord(ctx'[a], cur[a].thid).MyDID \in ctx'[a].dids
             /\ Len(ctx'[a].outbox) = 1
             /\ ctx'[a].outbox[1].msg.Type = RequestMsgType
             /\ ctx'[a].outbox[1].msg.ID = cur[a].thid
             /\ Val(ctx'[a].outbox[1].msg.Thread).PID = cur[a].msg.body.ID
             /\ Val(ctx'[a].outbox[1].msg.Connection).DID
                   = StoredRecord(ctx'[a], cur[a].thid).MyDID
             /\ ctx'[a].outbox[1].dest
                   = Destination(cur[a].msg.body.RecipientKeys,
                                 cur[a].msg.body.ServiceEndpoint, <<>>)]_vars

\* C11 happens: the invitation inv1 was handled to the end on thread t1, the
\* Request is out and the record is in state requested.
C11_Witness ==
    /\ pc["alice"] = "idle"
    /\ done = {<<"alice", <<"t1">>, InvitationMsgType>>}
    /\ Len(ctx["alice"].outbox) = 1
    /\ ctx["alice"].outbox[1].msg.ID = <<"t1">>
    /\ Val(ctx["alice"].outbox[1].msg.Thread).PID = Inv1.ID
    /\ StoredRecord(ctx["alice"], <<"t1">>).State = StateIDRequested
    /\ StoredRecord(ctx["alice"], <<"t1">>).MyDID = <<"did", "peer", "alice", "0">>

\* The messages of type type agent a has dispatched.
Dispatched(c, type) ==
    {c.outbox[i].msg : i \in {j \in 1..Len(c.outbox) : c.outbox[j].msg.Type = type}}

\* C12: the thread id is carried unchanged through a run.  A Request made for
\* an invitation has ID = thid; the Response made for a Request has
\* Thread.ID = the Request's ID; the Ack made for a Response has Thread.ID =
\* the Response's Thread.ID, and the record it goes with is the one stored
\* under myNSPrefix and that id; so every Ack an agent has dispatched is on
\* the thread id of a Request it has dispatched.
C12_ThreadIDCarried ==
    [][\A a \in Agents :
          /\ (/\ pc[a] = "exec" /\ pc'[a] = "persist"
              /\ ~IsNil(cur'[a].action) /\ Len(Val(cur'[a].action)) = 1)
             => LET body == cur[a].msg.body
                    out == Val(cur'[a].action)[1].msg
                IN  /\ out.Type = RequestMsgType => out.ID = cur[a].thid
                    /\ out.Type = ResponseMsgType
                         => Val(out.Thread).ID = body.ID
                    /\ out.Type = AckMsgType
                         => /\ Val(out.Thread).ID = Val(body.Thread).ID
                            /\ HasRecord(ctx[a], NSKey(Val(out.Thread).ID))
                            /\ [Val(cur'[a].rec) EXCEPT !.TheirDID = EmptyStr]
                                 = [StoredRecord(ctx[a], Val(out.Thread).ID)
                                       EXCEPT !.TheirDID = EmptyStr]
          /\ \A ack \in Dispatched(ctx'[a], AckMsgType) :
                \E request \in Dispatched(ctx'[a], RequestMsgType) :
                    Val(ack.Thread).ID = request.ID]_vars

\* C12 happens: the invitee's Ack is out, on the thread id of its Request,
\* which is the thread id of the inviter's Response.
C12_Witness ==
    /\ \E ack \in Dispatched(ctx["bob"], AckMsgType) :
          \E request \in Dispatched(ctx["bob"], RequestMsgType) :
              \E response \in Dispatched(ctx["alice"], ResponseMsgType) :
                  /\ Val(ack.Thread).ID = request.ID
                  /\ Val(response.Thread).ID = request.ID
                  /\ response.ID # request.ID

\* C13: the parent thread id ties the messages to the invitation.  The
\* Request made for a legacy Invitation has Thread.PID = the invitation's ID,
\* or its DID when the record is Implicit; the Request made for an
\* OOBInvitation has Thread.ID = thid and Thread.PID = the record's
\* ParentThreadID; the Response made for a Request has the Request's
\* Thread.PID.
C13_ParentThreadID ==
    [][\A a \in Agents :
          (/\ pc[a] = "exec" /\ pc'[a] = "persist"
           /\ ~IsNil(cur'[a].action) /\ Len(Val(cur'[a].action)) = 1)
          => LET body == cur[a].msg.body
                 rec == Val(cur[a].msg.connRecord)
                 out == Val(cur'[a].action)[1].msg
             IN  /\ (out.Type = RequestMsgType /\ body.Type = InvitationMsgType)
                      => Val(out.Thread).PID
                            = IF rec.Implicit THEN body.DID ELSE body.ID
                 /\ (out.Type = RequestMsgType /\ body.Type = oobMsgType)
                      => /\ Val(out.Thread).ID = cur[a].thid
                         /\ Val(out.Thread).PID = rec.ParentThreadID
                 /\ out.Type = ResponseMsgType
                      => Val(out.Thread).PID = Val(body.Thread).PID]_vars

\* C13 happens: a Request is about to go out for an implicit invitation, its
\* parent thread id the invitation's DID.
C13_Witness ==
    /\ pc["alice"] = "action"
    /\ cur["alice"].msg.body = InvImplicit
    /\ ~IsNil(cur["alice"].msg.connRecord)
    /\ Val(cur["alice"].msg.connRecord).Implicit
    /\ Len(Sends("alice")) = 1
    /\ Val(Sends("alice")[1].msg.Thread).PID = PubDoc.ID

\* C13 happens also for an OOBInvitation and for a Request.
C13_WitnessOthers ==
    /\ pc["alice"] = "action"
    /\ Len(Sends("alice")) = 1
    /\ \/ /\ cur["alice"].msg.body.Type = oobMsgType
          /\ Val(Sends("alice")[1].msg.Thread).PID = <<"inv", "7">>
       \/ /\ cur["alice"].msg.body.Type = RequestMsgType
          /\ Val(Sends("alice")[1].msg.Thread).PID = Inv1.ID


\* The record an execution works on: the one stored under the thread of a
\* Response when completed handles it (handleInboundResponse loads it), else
\* the one given with the message.
RecordBefore(a) ==
    LET body == cur[a].msg.body
    IN  IF /\ cur[a].next = StateIDCompleted
           /\ body.Type = ResponseMsgType
           /\ ~IsNil(body.Thread)
           /\ HasRecord(ctx[a], NSKey(Val(body.Thread).ID))
        THEN ctx[a].recs[NSKey(Val(body.Thread).ID)]
        ELSE cur[a].msg.connRecord

C14_ParentThreadIDKept ==
    [][\A a \in Agents :
          (/\ pc[a] = "exec" /\ pc'[a] = "persist"
           /\ cur[a].next # stateNameNull
           /\ ~IsNil(cur'[a].rec)
           /\ ~IsNil(RecordBefore(a)))
          => /\ Val(cur'[a].rec).ParentThreadID = Val(RecordBefore(a)).ParentThreadID
             /\ cur[a].msg.body.Type # oobMsgType
                  => Val(cur'[a].rec).ThreadID = Val(RecordBefore(a)).ThreadID]_vars

\* The case of C14: a record on another thread has been through the handling
\* of an OOBInvitation.
C14_Witness ==
    /\ pc["alice"] = "persist"
    /\ cur["alice"].msg.body.Type = oobMsgType
    /\ ~IsNil(cur["alice"].msg.connRecord)
    /\ Val(cur["alice"].msg.connRecord).ThreadID = OtherThid
    /\ ~IsNil(cur["alice"].rec)
    /\ Val(cur["alice"].rec).ParentThreadID = <<"inv", "7">>

\* The successors the protocol allows each state, by name.
LegalSuccessors(s) ==
    CASE s = stateNameNull -> {StateIDInvited, StateIDRequested}
      [] s = StateIDInvited -> {StateIDRequested}
      [] s = StateIDRequested -> {StateIDResponded}
      [] s = StateIDResponded -> {StateIDCompleted}
      [] OTHER -> {}

\* C15: CanTransitionTo answers true exactly for null to invited or
\* requested, invited to requested, requested to responded and responded to
\* completed; completed, abandoned and noop have no successor, and no state
\* is its own successor.
C15_LegalSuccessors ==
    (codec.stage = "answered" /\ codec.fn = "CanTransitionTo")
    => /\ Val(codec.out) = (codec.arg[2] \in LegalSuccessors(codec.arg[1]))
       /\ codec.arg[1] \in {StateIDCompleted, StateIDAbandoned, stateNameNoop}
            => Val(codec.out) = FALSE
       /\ codec.arg[1] = codec.arg[2] => Val(codec.out) = FALSE

\* C15 happens: completed was asked whether it may be followed by completed,
\* and answered no.
C15_Witness ==
    /\ codec.stage = "answered"
    /\ codec.fn = "CanTransitionTo"
    /\ codec.arg = <<StateIDCompleted, StateIDCompleted>>
    /\ codec.out = Some(FALSE)

\* C16: stateFromMsgType answers invited for an Invitation and an
\* OOBInvitation, requested for a Request, responded for a Response,
\* completed for an Ack and a Complete, and an error for every other string;
\* it never answers null, noop or abandoned.
C16_StateFromMsgType ==
    (codec.stage = "answered" /\ codec.fn = "stateFromMsgType")
    => LET msgType == codec.arg[1]
           out == Val(codec.out)
       IN  /\ msgType \in {InvitationMsgType, oobMsgType} => out = StateIDInvited
           /\ msgType = RequestMsgType => out = StateIDRequested
           /\ msgType = ResponseMsgType => out = StateIDResponded
           /\ msgType \in {AckMsgType, CompleteMsgType} => out = StateIDCompleted
           /\ msgType \notin MsgTypes \ {OtherMsgType} => out = NilState
           /\ out \notin {stateNameNull, stateNameNoop, StateIDAbandoned}

\* C16 happens: a Complete message was mapped to completed.
C16_Witness ==
    /\ codec.stage = "answered"
    /\ codec.fn = "stateFromMsgType"
    /\ codec.arg = <<CompleteMsgType>>
    /\ codec.out = Some(StateIDCompleted)

\* C16 happens for an unknown type too: the name of a state given as a
\* message type was answered with the error.
C16_WitnessError ==
    /\ codec.stage = "answered"
    /\ codec.fn = "stateFromMsgType"
    /\ codec.arg = <<StateIDAbandoned>>
    /\ codec.out = Some(NilState)

\* C17: stateFromName of the name of a state is a state of the same type,
\* whose name is the name given; the seven names are pairwise distinct; any
\* other name is answered with the error.
C17_NameRoundTrip ==
    /\ \A s, t \in StateKinds : Name(s) = Name(t) => s = t
    /\ (codec.stage = "answered" /\ codec.fn = "stateFromName")
       => LET name == codec.arg[1]
              out == Val(codec.out)
          IN  /\ ~IsNil(codec.kind) => out = Val(codec.kind)
              /\ name \in StateNames => out \in StateKinds /\ Name(out) = name
              /\ name \notin StateNames => out = NilState

\* C17 happens: the name of abandoned was looked up and abandoned came back.
C17_Witness ==
    /\ codec.stage = "answered"
    /\ codec.fn = "stateFromName"
    /\ codec.kind = Some("*abandoned")
    /\ codec.arg = <<StateIDAbandoned>>
    /\ codec.out = Some("*abandoned")

\* C17 happens for a name of no state too.
C17_WitnessError ==
    /\ codec.stage = "answered"
    /\ codec.fn = "stateFromName"
    /\ codec.arg = <<"Invited">>
    /\ codec.out = Some(NilState)

\* The decoded signed data of the signature under verification.
SigData == URLDecodeString(Val(codec.sig).SignedData)

\* C18: verifySignature of signed data of at most timestamplen bytes fails
\* with "missing connection attribute bytes", be the data empty or not and
\* the signature good or not.
C18_ShortDataError ==
    (codec.stage = "verifiedShort" /\ Len(SigData) <= timestamplen)
    => codec.out.err = <<"missing connection attribute bytes">>

\* C18, the part that holds: such signed data is always refused; the error
\* is "missing or invalid signature data" for no data at all, "verify
\* signature" for a signature not made by the recipient key, and "missing
\* connection attribute bytes" in the case left.
C18_ShortDataRefused ==
    (codec.stage = "verifiedShort" /\ Len(SigData) <= timestamplen)
    => /\ ~codec.out.panic
       /\ IsNil(codec.out.conn)
       /\ codec.out.err =
             IF Len(SigData) = 0 THEN <<"missing or invalid signature data">>
             ELSE IF codec.recipientKey # codec.key THEN <<"verify signature">>
             ELSE <<"missing connection attribute bytes">>

\* The case of C18: signed data that is the timestamp alone, signed by
\* another key than the recipient key, has been refused.
C18_Witness ==
    /\ codec.stage = "verifiedShort"
    /\ Len(SigData) = timestamplen
    /\ codec.recipientKey # codec.key
    /\ codec.out.err = <<"verify signature">>

\* The case of C18 where the claim's error is the one returned.
C18_WitnessMissing ==
    /\ codec.stage = "verifiedShort"
    /\ Len(SigData) = timestamplen
    /\ codec.recipientKey = codec.key
    /\ codec.out.err = <<"missing connection attribute bytes">>

\* C19: the data prepareConnectionSignature signs is the time in seconds as
\* timestamplen bytes, most significant first, followed by the JSON of the
\* Connection: the first bytes decode to the time (00 00 00 00 3B 9A CA 00
\* for 1000000000), the bytes after them are the Connection's JSON, and the
\* signature is over the whole.
C19_SignedDataLayout ==
    codec.stage = "signed"
    => /\ Len(SigData) = timestamplen + Len(JsonMarshal(codec.conn))
       /\ codec.now = 1000000000
            => SubSeq(SigData, 1, timestamplen) = <<0, 0, 0, 0, 59, 154, 202, 0>>
       /\ Uint64(SubSeq(SigData, 1, timestamplen)) = codec.now
       /\ SubSeq(SigData, timestamplen + 1, Len(SigData)) = JsonMarshal(codec.conn)
       /\ URLDecodeString(Val(codec.sig).Signature)
             = CryptoSign(SigData, CreateKID(PubKeyFromDIDKey(codec.key)))

\* C19 happens: a Connection with its document was signed at 1000000000.
C19_Witness ==
    /\ codec.stage = "signed"
    /\ codec.now = 1000000000
    /\ codec.conn = EnvConn
    /\ SubSeq(SigData, 1, timestamplen) = <<0, 0, 0, 0, 59, 154, 202, 0>>
    /\ Len(SigData) > timestamplen

\* C20: a call of getDIDDocAndConnection with the public DID set that
\* succeeds creates no key, leaves the registry and the router as they were,
\* saves the resolved document with SaveDIDFromDoc and nothing else, and
\* returns that document and a Connection of its id with no document in it;
\* one that fails leaves the context as it was.  With the public DID not set,
\* a call that succeeds returns a Connection holding the document just
\* created, under a new key.
C20_PublicDIDReused ==
    [][codec'.stage = "called"
       => LET c == ctx["alice"]
              after == ctx'["alice"]
              out == codec'.out
              pubDID == codec'.pubDID
          IN  /\ (pubDID # EmptyStr /\ out.err = NoErr)
                   => /\ after.nkeys = c.nkeys /\ after.kms = c.kms
                      /\ after.vdr = c.vdr
                      /\ after.router = c.router
                      /\ after = [c EXCEPT !.dids = c.dids \cup {pubDID}]
                      /\ Val(out.doc) \in c.vdr /\ Val(out.doc).ID = pubDID
                      /\ out.conn = Some(Connection(pubDID, Nil))
              /\ (pubDID # EmptyStr /\ Failed(out.err))
                   => after = c /\ IsNil(out.conn)
              /\ (pubDID = EmptyStr /\ out.err = NoErr)
                   => /\ Val(out.conn) = Connection(Val(out.doc).ID, out.doc)
                      /\ Val(out.doc) \notin c.vdr /\ Val(out.doc) \in after.vdr
                      /\ after.nkeys = c.nkeys + 1
                      /\ Val(out.doc).ID \in after.dids]_vars

\* C20 happens: with router connections given too, the public DID was
\* resolved and saved, and no key was made or registered with a router.
C20_Witness ==
    /\ codec.stage = "called"
    /\ codec.pubDID = PubDoc.ID
    /\ codec.routerConnections = << <<"r1">>, <<"r2">> >>
    /\ codec.out.err = NoErr
    /\ codec.out.conn = Some(Connection(PubDoc.ID, Nil))
    /\ PubDoc.ID \in ctx["alice"].dids
    /\ ctx["alice"].nkeys = 0
    /\ ctx["alice"].router = {}

\* C20 happens without the option: a new document came back in the
\* Connection.
C20_WitnessNew ==
    /\ codec.stage = "called"
    /\ codec.pubDID = EmptyStr
    /\ codec.out.err = NoErr
    /\ ctx["alice"].nkeys = 1
    /\ Val(codec.out.conn).DIDDoc = codec.out.doc
    /\ ~IsNil(codec.out.doc)

\* C21: resolveDidDocFromConnection of a Connection that carries a document
\* calls the registry's Create once, with store set, under the method of
\* the document's id (peer for sov), and never Resolve; the document is the
\* one returned and the registry holds it afterwards.  Of a Connection with
\* no document it calls Resolve once, on the Connection's DID, and never
\* Create, and the registry is as it was.  (A document whose id is no DID
\* is refused before any call.)
C21_StoreOrResolve ==
    [][codec'.stage = "resolved"
       => LET conn == codec'.conn
              out == codec'.out
          IN  /\ IsNil(conn.DIDDoc)
                   => /\ out.calls = <<ResolveCall(conn.DID)>>
                      /\ ctx' = ctx
              /\ (~IsNil(conn.DIDDoc) /\ Val(conn.DIDDoc).ID[1] = "did")
                   => /\ out.calls =
                            <<CreateCall(IF Val(conn.DIDDoc).ID[2] = "sov" THEN "peer"
                                         ELSE Val(conn.DIDDoc).ID[2],
                                         Val(conn.DIDDoc), TRUE)>>
                      /\ out.err = NoErr
                           => /\ out.doc = conn.DIDDoc
                              /\ Val(conn.DIDDoc) \in ctx'["alice"].vdr
              /\ (~IsNil(conn.DIDDoc) /\ Val(conn.DIDDoc).ID[1] # "did")
                   => out.calls = <<>> /\ Failed(out.err) /\ ctx' = ctx
              /\ \A i \in 1..Len(out.calls) :
                    out.calls[i].op = (IF IsNil(conn.DIDDoc) THEN "Resolve" ELSE "Create")]_vars

\* C21 happens: a did:sov document came with the Connection and was stored
\* under the method peer.
C21_Witness ==
    /\ codec.stage = "resolved"
    /\ codec.conn = Connection(PubDoc.ID, Some(PubDoc))
    /\ codec.out.err = NoErr
    /\ codec.out.calls = <<CreateCall("peer", PubDoc, TRUE)>>

\* The service block of the target of an OOB invitation, before the
\* invitation's media type profiles are looked at.
TargetService(c, i) ==
    IF i.Target.kind = "did"
    THEN LET d == CHOOSE d \in c.vdr : d.ID = i.Target.did
         IN  Service(d.keys, d.endpoint, d.accept)
    ELSE i.Target.svc

\* C22: the service block getServiceBlock returns has the invitation's
\* MediaTypeProfiles for its Accept when there are any, and the Accept of
\* the target's own service when there are none, the target being a DID, a
\* service struct or a map; its keys and endpoint are the target's.
C22_ProfilesTakePrecedence ==
    (codec.stage = "block" /\ codec.out.err = NoErr)
    => LET i == codec.i
           own == TargetService(ctx["alice"], i)
       IN  /\ i.Target.kind \in {"did", "service", "map"}
           /\ codec.out.svc.Accept =
                 IF i.MediaTypeProfiles # <<>> THEN i.MediaTypeProfiles ELSE own.Accept
           /\ codec.out.svc.RecipientKeys = own.RecipientKeys
           /\ codec.out.svc.ServiceEndpoint = own.ServiceEndpoint

\* C22 happens: the invitation names a DID whose document accepts v1, and
\* gives the profile v2.
C22_Witness ==
    /\ codec.stage = "block"
    /\ codec.i.Target.kind = "did"
    /\ codec.i.MediaTypeProfiles = << <<"v2">> >>
    /\ codec.out.err = NoErr
    /\ TargetService(ctx["alice"], codec.i).Accept = << <<"v1">> >>
    /\ codec.out.svc.Accept = << <<"v2">> >>

\* C22 happens with no profiles too: the Accept of a map target is kept.
C22_WitnessOwn ==
    /\ codec.stage = "block"
    /\ codec.i.Target.kind = "map"
    /\ codec.i.MediaTypeProfiles = <<>>
    /\ codec.out.err = NoErr
    /\ codec.out.svc.Accept = << <<"v1">> >>

\* The documents the registry resolves a DID to (none when Resolve fails).
Resolved(c, did, fail) ==
    IF fail = "resolve" THEN {} ELSE {d \in c.vdr : d.ID = did}

\* What the claim C24 lets getVerKey(id) return, a set of keys and of
\* errors, told from the store and the registry alone: the key of the OOB
\* invitation under id; else, for an id that is a DID, the first recipient
\* key of its document whatever the store holds; else the stored
\* invitation's DID's key, or its own first key.
ExpectedVerKey(c, id, fail) ==
    LET stored == {i \in StoredInvitations : i.ID = id}
        oob == {i \in stored : i.Type = oobMsgType}
        ofDID(did) ==
            IF Resolved(c, did, fail) = {}
            THEN {KeyErr(<<"get invitation recipient key">>)}
            ELSE {KeyOK(d.keys[1]) : d \in Resolved(c, did, fail)}
    IN  IF fail = "getInvitation"
        THEN {KeyErr(<<"failed to get my verkey from oob invitation">>)}
        ELSE IF oob # {}
        THEN {IF i.Target.kind = "did" /\ Resolved(c, i.Target.did, fail) = {}
              THEN KeyErr(<<"failed to get my verkey from oob invitation">>)
              ELSE KeyOK(TargetService(c, i).RecipientKeys[1]) : i \in oob}
        ELSE IF id[1] = "did" THEN ofDID(id)
        ELSE IF stored = {} THEN {KeyErr(<<"get invitation for signature">>)}
        ELSE UNION {IF i.DID # EmptyStr THEN ofDID(i.DID)
                    ELSE IF i.RecipientKeys = <<>> THEN {KeyPanic}
                    ELSE {KeyOK(i.RecipientKeys[1])} : i \in stored}

\* C24: getVerKey(id) returns the first recipient key of the OOB invitation
\* stored under id; it goes on to the legacy invitation only when there is
\* no OOB invitation under id, any other error of the OOB lookup being
\* returned; then an id that is a DID is resolved, never looked up, and any
\* other id gives the stored invitation's first recipient key, or that of
\* its DID's document when it has a DID.
C24_VerKeyOrder ==
    codec.stage = "verkey"
    => codec.out \in ExpectedVerKey(ctx["alice"], codec.id, codec.fail)

\* C24 happens: a legacy invitation with its own key is stored under an id
\* that is a DID, and the key returned is the one of the DID's document.
C24_Witness ==
    /\ codec.stage = "verkey"
    /\ codec.id = PubDoc.ID
    /\ \E i \in StoredInvitations : i.ID = codec.id /\ i.RecipientKeys = <<EnvKey>>
    /\ codec.out = KeyOK(PubDoc.keys[1])

\* C24 happens for an OOB invitation too, and for an error of its lookup.
C24_WitnessOOB ==
    /\ codec.stage = "verkey"
    /\ codec.id = Oob1.ID
    /\ \/ codec.out = KeyOK(InvKey)
       \/ codec.fail = "getInvitation" /\ Failed(codec.out.err)

\* The Response a handling of a Request sends, when it sends one.
SentResponse == Val(codec.out.action)[1].msg

\* Whether a handling of a Request ended with a Response to send.
RequestAnswered ==
    /\ codec.stage = "request"
    /\ codec.out.err = NoErr /\ ~codec.out.panic
    /\ ~IsNil(codec.out.action) /\ Len(Val(codec.out.action)) = 1

\* C25: the Response handleInboundRequest builds carries one proof.  With
\* the interop flag off it has a ConnectionSignature and neither DID nor
\* DocAttach, whatever attachment the Request has.  With the flag on it has
\* no ConnectionSignature, a DocAttach signed by the key of the invitation,
\* and for its DID the local DID less its "did:<method>:" (so less
\* "did:sov:" of the document as sent); and a Request whose attachment does
\* not verify is refused.
C25_OneProofForm ==
    /\ RequestAnswered
       => /\ SentResponse.Type = ResponseMsgType
          /\ ~codec.interop
               => /\ ~IsNil(SentResponse.ConnectionSignature)
                  /\ SentResponse.DID = EmptyStr
                  /\ IsNil(SentResponse.DocAttach)
          /\ codec.interop
               => /\ IsNil(SentResponse.ConnectionSignature)
                  /\ ~IsNil(SentResponse.DocAttach)
                  /\ Val(SentResponse.DocAttach).signer = InvKey
                  /\ Val(SentResponse.DocAttach).jws
                        = CryptoSign(Val(SentResponse.DocAttach).Base64,
                                     CreateKID(PubKeyFromDIDKey(InvKey)))
                  /\ SentResponse.DID
                        = SubSeq(Val(codec.out.rec).MyDID, 3,
                                 Len(Val(codec.out.rec).MyDID))
                  /\ SentResponse.DID[1] # "did"
    /\ (/\ codec.stage = "request" /\ codec.interop
        /\ ~IsNil(codec.request.DocAttach)
        /\ Val(codec.request.DocAttach).jws
              # CryptoSign(Val(codec.request.DocAttach).Base64,
                           CreateKID(PubKeyFromDIDKey(Val(codec.request.DocAttach).signer))))
       => Failed(codec.out.err)

\* C25 happens: with the interop flag off, a Request with an attachment
\* signed by nobody was answered by a Response with a ConnectionSignature.
C25_Witness ==
    /\ RequestAnswered
    /\ ~codec.interop
    /\ codec.request.DocAttach = Some(Attachment(<<1, 2>>, <<9>>, EnvKey))
    /\ ~IsNil(SentResponse.ConnectionSignature)

\* C25 happens with the flag on: a public DID of method sov is named bare.
C25_WitnessInterop ==
    /\ RequestAnswered
    /\ codec.interop
    /\ codec.options.publicDID = PubDoc.ID
    /\ SentResponse.DID = <<"pub", "0">>
    /\ ~IsNil(SentResponse.DocAttach)

\* C26: a handling of a Request that succeeds returns the record it was
\* given with TheirDID the DID of the Request's Connection, MyDID the DID of
\* the Connection made for the Response (the public DID when one is given,
\* else a DID new to the store), TheirLabel the Request's Label, and
\* MediaTypeProfiles those of the remote document's destination when it has
\* any; every other field is as it was.
C26_RecordAfterRequest ==
    [][(/\ codec'.stage = "request"
        /\ codec'.out.err = NoErr /\ ~codec'.out.panic)
       => LET rec == Val(codec'.out.rec)
              given == codec'.connRec
              request == codec'.request
              remote == Val(Val(request.Connection).DIDDoc)
          IN  /\ rec.TheirDID = Val(request.Connection).DID
              /\ rec.MyDID \in ctx'["alice"].dids
              /\ IF codec'.options.publicDID # EmptyStr
                 THEN rec.MyDID = codec'.options.publicDID
                 ELSE rec.MyDID \notin ctx["alice"].dids
              /\ rec.TheirLabel = request.Label
              /\ rec.MediaTypeProfiles =
                    IF remote.accept # <<>> THEN remote.accept
                    ELSE given.MediaTypeProfiles
              /\ rec = [given EXCEPT !.TheirDID = rec.TheirDID,
                                     !.MyDID = rec.MyDID,
                                     !.TheirLabel = rec.TheirLabel,
                                     !.MediaTypeProfiles = rec.MediaTypeProfiles]]_vars

\* C26 happens: a record with media type profiles, recipient keys and the
\* implicit mark kept them all, the remote document naming no media type.
C26_Witness ==
    /\ RequestAnswered
    /\ codec.connRec.Implicit
    /\ Val(Val(codec.request.Connection).DIDDoc).accept = <<>>
    /\ Val(codec.out.rec).MediaTypeProfiles = << <<"v1">> >>
    /\ Val(codec.out.rec).RecipientKeys = <<InvKey>>
    /\ Val(codec.out.rec).TheirDID = EnvDoc.ID
    /\ Val(codec.out.rec).MyDID = DID(didMethod, "alice", 0)

\* C26 happens the other way too: the remote document's media types
\* replaced those of the record.
C26_WitnessReplaced ==
    /\ RequestAnswered
    /\ codec.connRec.MediaTypeProfiles = << <<"v1">> >>
    /\ Val(codec.out.rec).MediaTypeProfiles = << <<"v2">> >>

\* A record but for the DID made for it, whose name is new at every run.
RecordView(rec) ==
    IF IsNil(rec) THEN Nil
    ELSE Some([f \in DOMAIN Val(rec) \ {"MyDID"} |-> Val(rec)[f]])

\* The types and destinations of the messages c has sent on thread t.
SentOn(c, t) ==
    [i \in 1..Len(SelectSeq(c.outbox, LAMBDA s : ThreadIDOf(s.msg) = t))
        |-> [Type |-> SelectSeq(c.outbox, LAMBDA s : ThreadIDOf(s.msg) = t)[i].msg.Type,
             dest |-> SelectSeq(c.outbox, LAMBDA s : ThreadIDOf(s.msg) = t)[i].dest]]

\* What thread t has come to in context c: its record, its state and the
\* messages sent on it.
ThreadView(c, t) ==
    [rec |-> RecordView(c.recs[CreateNamespaceKey(myNSPrefix, t)]),
     state |-> currentState(c, t),
     sent |-> SentOn(c, t)]

\* Agent a has handled every message it is handed.
AllHandled(a) ==
    /\ pc[a] = "idle"
    /\ \A t \in ThreadsOf(a) : codec.pos[a][t] = Len(ThreadMsgs(t))

\* C27: when the messages of two threads have been handled in some
\* interleaving, each thread has the record and the outbound messages it has
\* when its messages are handled alone in their arrival order.
C27_ThreadsIndependent ==
    (AllHandled("alice") /\ AllHandled("bob"))
        => ThreadView(ctx["alice"], codec.alone) = ThreadView(ctx["bob"], codec.alone)

\* The thread whose request carries the document it needs comes to the same
\* end alone and beside the other thread (part of C27 that holds).
C27_RequestThreadAlone ==
    (codec.alone = OtherThid /\ AllHandled("alice") /\ AllHandled("bob"))
        => ThreadView(ctx["alice"], OtherThid) = ThreadView(ctx["bob"], OtherThid)

\* Both runs are over, and alone the first thread's response was refused.
C27_Witness ==
    /\ codec.alone = <<"t1">>
    /\ AllHandled("alice") /\ AllHandled("bob")
    /\ currentState(ctx["bob"], <<"t1">>) = StateIDResponded
    /\ currentState(ctx["alice"], <<"t1">>) = StateIDCompleted

\* No record stored in c is in state abandoned or noop.
NoneAbandoned(c) ==
    \A k \in DOMAIN c.recs :
        HasRecord(c, k) =>
            GetConnectionRecordByNSThreadID(c, k).State
                \notin {StateIDAbandoned, stateNameNoop}

\* C28: no record is ever stored in state abandoned or noop: no state lists
\* abandoned as a successor, no execution names it as the followup, and
\* executing abandoned or noop ends in an error that stores and sends nothing.
C28_NeverAbandoned ==
    [][\A a \in Agents :
          /\ \A s \in {stateNameNoop, stateNameNull, StateIDInvited,
                       StateIDRequested, StateIDResponded, StateIDCompleted,
                       StateIDAbandoned} :
                 ~CanTransitionTo(s, StateIDAbandoned)
          /\ NoneAbandoned(ctx[a]) /\ NoneAbandoned(ctx'[a])
          /\ pc'[a] = "persist" => cur'[a].followup # StateIDAbandoned
          /\ (pc[a] = "exec" /\ cur[a].next \in {StateIDAbandoned, stateNameNoop})
                 => /\ pc'[a] = "idle"
                    /\ Failed(cur'[a].err)
                    /\ ctx'[a] = ctx[a]]_vars

\* abandoned has been executed with a response and has refused it.
C28_Witness ==
    /\ pc["alice"] = "idle"
    /\ cur["alice"].err = <<"not implemented">>

\* noop has been executed and has refused.
C28_WitnessNoop ==
    /\ pc["alice"] = "idle"
    /\ cur["alice"].err = <<"cannot execute no-op">>

\* The place of a state in the order null < invited < requested < responded
\* < completed; a state outside the order is below them all.
Rank(name) ==
    CASE name = stateNameNull -> 0
      [] name = StateIDInvited -> 1
      [] name = StateIDRequested -> 2
      [] name = StateIDResponded -> 3
      [] name = StateIDCompleted -> 4
      [] OTHER -> -1

\* C29: whatever is received, executed, stored or sent, and whatever fails,
\* the state of a thread's record is never lower in the order than it was, and
\* a completed record stays completed.
C29_StateMovesForward ==
    [][\A a \in Agents, t \in Thids :
          /\ Rank(currentState(ctx'[a], t)) >= Rank(currentState(ctx[a], t))
          /\ currentState(ctx[a], t) = StateIDCompleted
                 => currentState(ctx'[a], t) = StateIDCompleted]_vars

\* The inviter's record has gone up to completed, the Ack handled.
C29_Witness ==
    /\ pc["alice"] = "idle"
    /\ <<"alice", <<"t1">>, RequestMsgType>> \in done
    /\ <<"alice", <<"t1">>, AckMsgType>> \in done
    /\ currentState(ctx["alice"], <<"t1">>) = StateIDCompleted

\* A record stays where it was when its followup failed: still responded
\* after a Response whose handling ended in an error.
C29_WitnessStuck ==
    /\ pc["alice"] = "idle"
    /\ Failed(cur["alice"].err)
    /\ <<"alice", <<"t1">>, ResponseMsgType>> \notin done
    /\ ctx["alice"].recs[NSKey(<<"t1">>)] # Nil
    /\ currentState(ctx["alice"], <<"t1">>) = StateIDResponded
    /\ Val(ctx["alice"].recs[NSKey(<<"t1">>)]).ParentThreadID = InvEnv.ID

\* C30: the handling of one message executes at most two states: a state is
\* executed only when fewer than two have been executed to their end for the
\* message, so the chain of followups has come to noop or to an error by then.
C30_AtMostTwoExecutions ==
    [][\A a \in Agents :
          (pc[a] = "exec" /\ pc'[a] # "exec") => cur[a].runs < 2]_vars

\* A followup state has been executed and has no followup of its own.
C30_Witness ==
    /\ pc["alice"] = "action"
    /\ cur["alice"].runs = 1
    /\ cur["alice"].followup = stateNameNoop

\* A followup state has been executed and has ended in an error.
C30_WitnessError ==
    /\ pc["alice"] = "idle"
    /\ Failed(cur["alice"].err)
    /\ currentState(ctx["alice"], <<"t1">>) = StateIDResponded
    /\ ctx["alice"].recs[NSKey(<<"t1">>)] # Nil
    /\ Val(ctx["alice"].recs[NSKey(<<"t1">>)]).TheirDID = EmptyStr
    /\ Len(ctx["alice"].outbox) = 0

\* The fields of a record that a failed call is said to leave alone.
KeptFields == {"MyDID", "ThreadID", "TheirDID", "TheirLabel", "MediaTypeProfiles"}

\* C31: when ExecuteInbound has returned an error, the record the message
\* came in with has the MyDID, ThreadID, TheirDID, TheirLabel and
\* MediaTypeProfiles it had before the call.
C31_FailedCallLeavesRecord ==
    \A a \in Agents :
        (Failed(cur[a].err) /\ ~IsNil(cur[a].came) /\ ~IsNil(cur[a].left))
            => \A f \in KeptFields : Val(cur[a].left)[f] = Val(cur[a].came)[f]

\* The error e names the step what.
Names(e, what) == \E i \in 1..Len(e) : e[i] = what

\* ExecuteInbound returned an error to agent a and left field f changed.
LeftChanged(a, f) ==
    /\ Failed(cur[a].err) /\ ~IsNil(cur[a].came) /\ ~IsNil(cur[a].left)
    /\ Val(cur[a].left)[f] # Val(cur[a].came)[f]

\* What a failed call does leave alone (the part of C31 that holds): the
\* record's state, parent thread id, recipient keys, media type profiles and
\* implicit flag.
C31_FailedCallKeepsRest ==
    \A a \in Agents :
        \A f \in {"State", "ParentThreadID", "RecipientKeys", "MediaTypeProfiles",
                  "Implicit"} : ~LeftChanged(a, f)

\* An OOB invitation whose service block could not be had left MyDID set.
C31_WitnessOOB ==
    /\ Names(cur["alice"].err, "failed to get service block")
    /\ LeftChanged("alice", "MyDID")

\* A request whose document gives no destination left TheirDID set.
C31_WitnessRequest ==
    /\ Names(cur["alice"].err, "create destination")
    /\ LeftChanged("alice", "TheirDID")

\* An invitation whose sender key could not be had left MyDID set.
C31_WitnessInvitation ==
    /\ Names(cur["alice"].err, "handle inbound invitation")
    /\ LeftChanged("alice", "MyDID")

\* An OOB invitation handled under another thread id left ThreadID changed.
C31_WitnessThread ==
    /\ Failed(cur["alice"].err)
    /\ LeftChanged("alice", "ThreadID")

\* The execution of a state by agent a faults: it neither returns a result
\* nor an error.
Faults(a) == pc[a] = "exec" /\ pc'[a] = "crashed"

\* C32: no execution of a state faults, whatever part the message, the
\* record or the invitation is missing.
C32_NeverFaults == [][\A a \in Agents : ~Faults(a)]_vars

\* The message agent a is about to execute a state with.
Body(a) == cur[a].msg.body

\* The cases of C32, each as the statement that the case does not fault:
\* a Request with no thread decorator, interop off.
C32_RequestNoThread ==
    [][\A a \in Agents :
          (/\ ~IsNil(cur[a].msg.connRecord)
           /\ ~ctx[a].doACAPyInterop
           /\ Body(a).Type = RequestMsgType /\ IsNil(Body(a).Thread))
          => ~Faults(a)]_vars

\* a Response with no thread decorator.
C32_ResponseNoThread ==
    [][\A a \in Agents :
          (Body(a).Type = ResponseMsgType /\ IsNil(Body(a).Thread))
          => ~Faults(a)]_vars

\* a Response on a thread, with no ConnectionSignature.
C32_ResponseNoSignature ==
    [][\A a \in Agents :
          (/\ Body(a).Type = ResponseMsgType /\ ~IsNil(Body(a).Thread)
           /\ IsNil(Body(a).ConnectionSignature))
          => ~Faults(a)]_vars

\* a whole Response on a thread whose stored record has no recipient key.
C32_RecordNoRecipientKeys ==
    [][\A a \in Agents :
          (/\ Body(a).Type = ResponseMsgType /\ ~IsNil(Body(a).Thread)
           /\ ~IsNil(Body(a).ConnectionSignature)
           /\ HasRecord(ctx[a], NSKey(Val(Body(a).Thread).ID))
           /\ GetConnectionRecordByNSThreadID(
                  ctx[a], NSKey(Val(Body(a).Thread).ID)).RecipientKeys = <<>>)
          => ~Faults(a)]_vars

\* an invitation with no connection record attached.
C32_NoRecord ==
    [][\A a \in Agents :
          (/\ IsNil(cur[a].msg.connRecord)
           /\ Body(a).Type \in {InvitationMsgType, oobMsgType})
          => ~Faults(a)]_vars

\* The message, its record and the stored record have every part.
Whole(a) ==
    /\ ~IsNil(cur[a].msg.connRecord)
    /\ Body(a).Type \in {RequestMsgType, ResponseMsgType} => ~IsNil(Body(a).Thread)
    /\ Body(a).Type = ResponseMsgType =>
          /\ ~IsNil(Body(a).ConnectionSignature)
          /\ HasRecord(ctx[a], NSKey(Val(Body(a).Thread).ID)) =>
                 GetConnectionRecordByNSThreadID(
                     ctx[a], NSKey(Val(Body(a).Thread).ID)).RecipientKeys # <<>>

\* With every part there, no execution faults (the part of C32 that holds).
C32_WholeNeverFaults == [][\A a \in Agents : Whole(a) => ~Faults(a)]_vars

\* C33: the signer returns what the crypto's Sign(msg, kh) returns for the
\* handle it was made with, the verifier what the crypto's
\* Verify(signature, msg, pubKey) returns; a signature the signer made over
\* msg verifies under the matching public key and msg; and neither wrapper
\* is changed by a call.
C33_WrappersDelegate ==
    codec.stage = "suite" =>
        /\ codec.signer = [cr |-> codec.cr, kh |-> codec.kh]
        /\ codec.verifier = [cr |-> codec.cr]
        /\ codec.last.op = "sign" =>
               codec.last.out = CrSign(codec.cr, codec.last.msg, codec.kh)
        /\ codec.last.op = "verify" =>
               /\ codec.last.err = CrVerify(codec.cr, codec.last.signature,
                                            codec.last.msg, codec.last.pubKey)
               /\ (/\ [msg |-> codec.last.msg, sig |-> codec.last.signature]
                         \in codec.made
                   /\ CreateKID(codec.last.pubKey) = codec.kh)
                  => codec.last.err = NoErr

\* A signature the signer made over two bytes, after it had signed another
\* message, has been verified under the matching key.
C33_Witness ==
    /\ codec.stage = "suite"
    /\ codec.last.op = "verify"
    /\ codec.last.msg = <<1, 2>>
    /\ Cardinality(codec.made) >= 2
    /\ [msg |-> codec.last.msg, sig |-> codec.last.signature] \in codec.made
    /\ CreateKID(codec.last.pubKey) = codec.kh
    /\ codec.last.err = NoErr

\* The error of a crypto that fails comes back from the signer as it is.
C33_WitnessError ==
    /\ codec.stage = "suite"
    /\ codec.last.op = "sign"
    /\ codec.last.out.err = <<"sign failed">>

\* A signature verified under another key or over another message is
\* refused by the crypto, and the verifier says so.
C33_WitnessRefused ==
    /\ codec.stage = "suite"
    /\ codec.last.op = "verify"
    /\ \E m \in codec.made : m.sig = codec.last.signature
    /\ codec.last.err = <<"invalid signature">>
====
